---- MODULE Spec2Model ----
(***************************************************************************)
(* A model of two parts of symbolic:                                       *)
(*   - symbolic-unwind/src/evaluator/mod.rs: the evaluator of Breakpad RPN *)
(*     expressions and STACK CFI rules (Evaluator, Expr, Register);        *)
(*   - symbolic-debuginfo/src/breakpad.rs: the FUNC and line record        *)
(*     iterators of a Breakpad symbol file and the debug session's         *)
(*     functions.                                                          *)
(***************************************************************************)
EXTENDS Integers, Sequences, FiniteSets, TLC

VARIABLES
    \* Evaluator<'memory, A, E> (evaluator/mod.rs:58-82)
    memory,           \* Option<MemoryRegion>: None, or [base_addr, contents]
    registers,        \* BTreeMap<Register, A>
    endian,           \* E: "Big" or "Little"
    register_cache,   \* BTreeMap<Register, A>
    cfi_rules,        \* BTreeMap<Register, Expr<A>>
    overflow_checks,  \* whether the build traps on integer overflow
    \* the caller of the evaluator
    call,             \* the last call made on the evaluator, with its arguments
    ret,              \* what that call returned
    pre,              \* registers, register_cache and cfi_rules before that call
    returned,         \* register -> the first value evaluate_register returned for it
    calls,            \* number of calls made so far
    \* BreakpadObject<'data> and what its user holds (breakpad.rs)
    data,             \* the buffer of the object, as the lines a Lines cursor yields
    file_map,         \* BreakpadDebugSession::file_map, None before debug_session()
    func_records,     \* a BreakpadFuncRecords, alone or in a BreakpadFunctionIterator
    record,           \* the last item func_records.next() returned
    line_records,     \* the BreakpadLineRecords last obtained from record.lines()
    items,            \* the items the current iterator has yielded
    ended,            \* whether the current iterator has returned None
    first,            \* items and ended of the first iterator of record.lines(),
                      \* from the moment a later one is obtained
    iterator,         \* a record iterator of the object, with its kind
    yields,           \* the items that iterator has yielded
    child,            \* the iterator of the children of a record that iterator
                      \* yielded: F.lines() or R.deltas()
    owner             \* the record that child was obtained from

evars == <<memory, registers, endian, register_cache, cfi_rules, overflow_checks,
           call, ret, pre, returned, calls>>

\* the variables of the record iterators taken by themselves
svars == <<iterator, yields, child, owner>>

bvars == <<data, file_map, func_records, record, line_records, items, ended, first, svars>>

vars == <<evars, bvars>>

-----------------------------------------------------------------------------
(* Generic helpers *)

None == [tag |-> "None"]

Some(x) == [tag |-> "Some", val |-> x]

EmptyMap == [x \in {} |-> 0]

\* BTreeMap::insert
Insert(m, k, v) == [x \in DOMAIN m \cup {k} |-> IF x = k THEN v ELSE m[x]]

\* BTreeMap::remove
Remove(m, k) == [x \in DOMAIN m \ {k} |-> m[x]]

Min(a, b) == IF a < b THEN a ELSE b

-----------------------------------------------------------------------------
(* Registers and expressions *)

Cfa == [tag |-> "Cfa"]

Var(name) == [tag |-> "Var", name |-> name]

Const(name) == [tag |-> "Const", name |-> name]

R0 == Var("$r0")

R1 == Var("$r1")

\* The registers of the model, in the order of the derived Ord of Register:
\* Cfa < Var(_) < Const(_), names compared as strings.
RegOrder == <<Cfa, R0, R1>>

Regs == {RegOrder[i] : i \in 1..Len(RegOrder)}

is_cfa(r) == r.tag = "Cfa"

Value(x) == [t |-> "Value", x |-> x]

Reg(r) == [t |-> "Reg", r |-> r]

Op(e1, e2, op) == [t |-> "Op", e1 |-> e1, e2 |-> e2, op |-> op]

Deref(e) == [t |-> "Deref", e |-> e]

RECURSIVE contains_cfa(_)
contains_cfa(e) ==
    CASE e.t = "Value" -> FALSE
      [] e.t = "Reg" -> is_cfa(e.r)
      [] e.t = "Op" -> contains_cfa(e.e1) \/ contains_cfa(e.e2)
      [] e.t = "Deref" -> contains_cfa(e.e)

-----------------------------------------------------------------------------
(* Results *)

Ok(v) == [k |-> "Ok", v |-> v]

Err(e) == [k |-> "Err", e |-> e]

\* The thread panics: the call does not return.
Panic(why) == [k |-> "Panic", why |-> why]

\* Unbounded recursion: the stack is exhausted and the process is aborted.
StackOverflow == [k |-> "StackOverflow"]

IsOk(r) == r.k = "Ok"

IsErr(r) == r.k = "Err"

\* The call did not return at all.
Diverged(r) == r.k \in {"Panic", "StackOverflow"}

UndefinedRegister(r) == [kind |-> "UndefinedRegister", reg |-> r]

NoRuleForRegister(r) == [kind |-> "NoRuleForRegister", reg |-> r]

MemoryUnavailable == [kind |-> "MemoryUnavailable"]

IllegalMemoryAccess(bytes, address, lo, hi) ==
    [kind |-> "IllegalMemoryAccess", bytes |-> bytes, address |-> address,
     address_range |-> <<lo, hi>>]

-----------------------------------------------------------------------------
(* Values of the address type A and the memory region *)

\* A::WIDTH in bytes: the model instantiates A with u16, the narrowest type
\* for which the endianness of a read matters.
WIDTH == 2

Modulus == 2 ^ (8 * WIDTH)

\* a * b reduced modulo Modulus, computed bytewise on the second operand so
\* that no intermediate product leaves 32-bit integers.
RECURSIVE MulMod(_, _)
MulMod(a, b) ==
    IF b = 0 THEN 0
    ELSE ((a * (b % 256)) + 256 * MulMod(a, b \div 256)) % Modulus

MulOverflows(a, b) == a # 0 /\ b > (Modulus - 1) \div a

\* The integer the bytes encode, most significant byte first.
RECURSIVE FromBytesBE(_)
FromBytesBE(bytes) ==
    IF bytes = <<>> THEN 0
    ELSE 256 * FromBytesBE(SubSeq(bytes, 1, Len(bytes) - 1)) + bytes[Len(bytes)]

Reverse(s) == [i \in 1..Len(s) |-> s[Len(s) + 1 - i]]

\* MemoryRegion::get::<A, E>(address, endian): the WIDTH bytes at address,
\* decoded in the given endianness, or None when [address, address + WIDTH)
\* is not inside [base_addr, base_addr + len).
MemoryRegion_get(mem, address, end) ==
    LET lo == mem.base_addr
        hi == mem.base_addr + Len(mem.contents)
    IN  IF address >= lo /\ address + WIDTH <= hi
        THEN LET off == address - lo
                 bytes == SubSeq(mem.contents, off + 1, off + WIDTH)
             IN  Some(IF end = "Big" THEN FromBytesBE(bytes)
                      ELSE FromBytesBE(Reverse(bytes)))
        ELSE None

\* The binary operators on A (evaluator/mod.rs:253-260).  +, - and * trap on
\* overflow when the build checks overflows and wrap otherwise; /, % and @
\* trap on a zero divisor in every build.
ApplyOp(op, a, b, oc) ==
    CASE op = "Add" ->
            IF a + b >= Modulus /\ oc THEN Panic("overflow")
            ELSE Ok((a + b) % Modulus)
      [] op = "Sub" ->
            IF a < b /\ oc THEN Panic("overflow")
            ELSE Ok((a - b + Modulus) % Modulus)
      [] op = "Mul" ->
            IF MulOverflows(a, b) /\ oc THEN Panic("overflow")
            ELSE Ok(MulMod(a, b))
      [] op = "Div" ->
            IF b = 0 THEN Panic("division by zero") ELSE Ok(a \div b)
      [] op = "Mod" ->
            IF b = 0 THEN Panic("division by zero") ELSE Ok(a % b)
      [] op = "Align" ->
            IF b = 0 THEN Panic("division by zero") ELSE Ok(b * (a \div b))

\* What a call leaves behind: its result and the two maps it may write.
Outcome(r, regs, cache) == [ret |-> r, registers |-> regs, register_cache |-> cache]

\* deref, had the end of the address range been given as the length.
deref_range_len(address, mem, end) ==
    IF mem = None THEN Err(MemoryUnavailable)
    ELSE LET val == MemoryRegion_get(mem.val, address, end)
         IN  IF val # None THEN Ok(val.val)
             ELSE Err(IllegalMemoryAccess(WIDTH, Some(address), mem.val.base_addr,
                                          Len(mem.val.contents)))

\* The Deref arm of evaluate_inner once the address is known
\* (evaluator/mod.rs:265-275).
deref(address, mem, end) ==
    IF mem = None THEN Err(MemoryUnavailable)
    ELSE LET val == MemoryRegion_get(mem.val, address, end)
         IN  IF val # None THEN Ok(val.val)
             ELSE Err(IllegalMemoryAccess(WIDTH, Some(address), mem.val.base_addr,
                                          mem.val.base_addr + Len(mem.val.contents)))

\* Evaluator::evaluate_inner
RECURSIVE evaluate_inner(_, _, _, _, _)
evaluate_inner(expr, regs, mem, end, oc) ==
    CASE expr.t = "Value" -> Ok(expr.x)
      [] expr.t = "Reg" ->
            IF expr.r \in DOMAIN regs THEN Ok(regs[expr.r])
            ELSE Err(UndefinedRegister(expr.r))
      [] expr.t = "Op" ->
            LET e1 == evaluate_inner(expr.e1, regs, mem, end, oc)
            IN  IF ~IsOk(e1) THEN e1
                ELSE LET e2 == evaluate_inner(expr.e2, regs, mem, end, oc)
                     IN  IF ~IsOk(e2) THEN e2
                         ELSE ApplyOp(expr.op, e1.v, e2.v, oc)
      [] expr.t = "Deref" ->
            LET address == evaluate_inner(expr.e, regs, mem, end, oc)
            IN  IF ~IsOk(address) THEN address
                ELSE deref(address.v, mem, end)

\* evaluate_rule, had it written the new value into the register map as well.
evaluate_rule_promoting(register, rule, regs, cache, mem, end, oc) ==
    LET val == evaluate_inner(rule, regs, mem, end, oc)
    IN  IF IsOk(val)
        THEN Outcome(val, Insert(regs, register, val.v), Insert(cache, register, val.v))
        ELSE Outcome(val, regs, cache)

\* The end of evaluate_register_inner (evaluator/mod.rs:325-327): the rule is
\* evaluated and its value cached; the register map is not written.
evaluate_rule(register, rule, regs, cache, mem, end, oc) ==
    LET val == evaluate_inner(rule, regs, mem, end, oc)
    IN  IF IsOk(val) THEN Outcome(val, regs, Insert(cache, register, val.v))
        ELSE Outcome(val, regs, cache)

\* needs_cfa, had the evaluation of .cfa ahead of the rule been left out.
needs_cfa_never(rule, regs) == FALSE

\* Whether evaluate_register_inner evaluates .cfa first (evaluator/mod.rs:313).
needs_cfa(rule, regs) == contains_cfa(rule) /\ Cfa \notin DOMAIN regs

\* Evaluator::evaluate_register_inner.  A rule for .cfa that itself contains
\* .cfa, with .cfa neither cached nor bound, makes the function call itself
\* with the same arguments without end.
RECURSIVE evaluate_register_inner(_, _, _, _, _, _, _)
evaluate_register_inner(register, rules, regs, cache, mem, end, oc) ==
    IF register \in DOMAIN cache THEN Outcome(Ok(cache[register]), regs, cache)
    ELSE IF register \notin DOMAIN rules
    THEN Outcome(Err(NoRuleForRegister(register)), regs, cache)
    ELSE IF ~needs_cfa(rules[register], regs)
    THEN evaluate_rule(register, rules[register], regs, cache, mem, end, oc)
    ELSE IF is_cfa(register) THEN Outcome(StackOverflow, regs, cache)
    ELSE LET sub == evaluate_register_inner(Cfa, rules, regs, cache, mem, end, oc)
         IN  IF ~IsOk(sub.ret) THEN sub
             ELSE evaluate_rule(register, rules[register],
                                Insert(sub.registers, Cfa, sub.ret.v),
                                sub.register_cache, mem, end, oc)

\* The keys of a map in ascending order (BTreeMap::keys).
Keys(m) == SelectSeq(RegOrder, LAMBDA r : r \in DOMAIN m)

\* Evaluator::evaluate_all_registers: the rules' keys in order, each through
\* evaluate_register_inner, collected into a map; the first error ends the
\* iteration and is the result.
RECURSIVE evaluate_all_from(_, _, _, _, _, _, _, _)
evaluate_all_from(keys, acc, rules, regs, cache, mem, end, oc) ==
    IF keys = <<>> THEN Outcome(Ok(acc), regs, cache)
    ELSE LET one == evaluate_register_inner(Head(keys), rules, regs, cache, mem, end, oc)
         IN  IF ~IsOk(one.ret) THEN one
             ELSE evaluate_all_from(Tail(keys), Insert(acc, Head(keys), one.ret.v), rules,
                                    one.registers, one.register_cache, mem, end, oc)

\* evaluate_all_registers, had it left out the registers already cached.
evaluate_all_uncached(rules, regs, cache, mem, end, oc) ==
    evaluate_all_from(SelectSeq(Keys(rules), LAMBDA r : r \notin DOMAIN cache),
                      EmptyMap, rules, regs, cache, mem, end, oc)

evaluate_all_registers(rules, regs, cache, mem, end, oc) ==
    evaluate_all_from(Keys(rules), EmptyMap, rules, regs, cache, mem, end, oc)

\* add_cfi_rule applied to each rule of a parsed input, in the input's order.
RECURSIVE add_all(_, _)
add_all(rules, input) ==
    IF input = <<>> THEN rules
    ELSE add_all(Insert(rules, Head(input)[1], Head(input)[2]), Tail(input))

-----------------------------------------------------------------------------
(* The evaluator's operations *)

\* Bounds of the model: the number of calls made on one evaluator.
MaxCalls == 4

MaxRuleCalls == 2

\* The memory region an evaluator may be given: three bytes at address 12.
TheMemory == [base_addr |-> 12, contents |-> <<0, 10, 1>>]

\* The initial register maps: .cfa unbound or 40, $r0 unbound, 3 or 17.
RegisterMaps ==
    {m \in UNION {[D -> {3, 17, 40}] : D \in SUBSET {Cfa, R0}} :
        /\ Cfa \in DOMAIN m => m[Cfa] = 40
        /\ R0 \in DOMAIN m => m[R0] \in {3, 17}}

\* The rules of the example of process_rules: ".cfa: $r0 4 - $r0: 3 $r1: .cfa $r0 +"
DocRules ==
    {<<Cfa, Op(Reg(R0), Value(4), "Sub")>>,
     <<R0, Value(3)>>,
     <<R1, Op(Reg(Cfa), Reg(R0), "Add")>>}

\* The rules given to add_cfi_rule: those, two more rules for $r1, one that
\* reads memory at .cfa and one without .cfa, and a second rule for .cfa that
\* refers to .cfa itself.
RulePool ==
    DocRules \cup {<<R1, Deref(Reg(Cfa))>>, <<R1, Value(3)>>,
                   <<Cfa, Op(Reg(Cfa), Reg(R0), "Add")>>}

\* The sequences that list each element of S once, in every order.
RECURSIVE Orderings(_)
Orderings(S) ==
    IF S = {} THEN {<<>>}
    ELSE UNION {{<<x>> \o o : o \in Orderings(S \ {x})} : x \in S}

\* What parsing::rules_complete makes of an input: an error, or the rules in
\* the order they were written.  The inputs are the rules of the example, any
\* of them in any order, and the single rules "$r1: .cfa ^" and "$r0: $r0 4 -".
ParsedInputs ==
    {Err("ParseExprError")}
    \cup {Ok(i) : i \in UNION {Orderings(S) : S \in SUBSET DocRules \ {{}}}}
    \cup {Ok(<<<<R1, Deref(Reg(Cfa))>>>>), Ok(<<<<R0, Op(Reg(R0), Value(4), "Sub")>>>>)}

\* The evaluator as a call finds it, kept for comparison with what it leaves.
Snapshot == [memory |-> memory, registers |-> registers,
             register_cache |-> register_cache, cfi_rules |-> cfi_rules,
             returned |-> returned]

\* A call can be made: no earlier call panicked or exhausted the stack.
CanCall == ~Diverged(ret)

\* No call changes the configuration of the evaluator, and none touches a
\* symbol file.
Config == UNCHANGED <<memory, endian, overflow_checks, bvars>>

\* Evaluator::new(endian), then optionally .memory(..) and .registers(..)
EvalInit ==
    /\ memory \in {None, Some(TheMemory)}
    /\ registers \in RegisterMaps
    /\ endian \in {"Big", "Little"}
    /\ register_cache = EmptyMap
    /\ cfi_rules = EmptyMap
    /\ overflow_checks \in BOOLEAN
    /\ call = [op |-> "new"]
    /\ ret = Ok(0)
    /\ pre = [memory |-> memory, registers |-> registers, register_cache |-> EmptyMap,
              cfi_rules |-> EmptyMap, returned |-> EmptyMap]
    /\ returned = EmptyMap
    /\ calls = 0

\* add_cfi_rule, had it dropped the cached value of the register.
AddCfiRule_Invalidating ==
    \E rule \in RulePool :
        /\ CanCall /\ calls < MaxCalls
        /\ cfi_rules' = Insert(cfi_rules, rule[1], rule[2])
        /\ register_cache' = Remove(register_cache, rule[1])
        /\ call' = [op |-> "add_cfi_rule", register |-> rule[1], expr |-> rule[2]]
        /\ ret' = Ok(0)
        /\ pre' = Snapshot
        /\ calls' = calls + 1
        /\ Config
        /\ UNCHANGED <<registers, returned>>

\* Evaluator::add_cfi_rule
AddCfiRule ==
    \E rule \in RulePool :
        /\ CanCall /\ calls < MaxCalls
        /\ cfi_rules' = Insert(cfi_rules, rule[1], rule[2])
        /\ call' = [op |-> "add_cfi_rule", register |-> rule[1], expr |-> rule[2]]
        /\ ret' = Ok(0)
        /\ pre' = Snapshot
        /\ calls' = calls + 1
        /\ Config
        /\ UNCHANGED <<registers, register_cache, returned>>

\* Evaluator::evaluate_register
EvaluateRegister ==
    \E register \in Regs :
        LET out == evaluate_register_inner(register, cfi_rules, registers, register_cache,
                                           memory, endian, overflow_checks)
        IN  /\ CanCall /\ calls < MaxCalls
            /\ registers' = out.registers
            /\ register_cache' = out.register_cache
            /\ call' = [op |-> "evaluate_register", register |-> register]
            /\ ret' = out.ret
            /\ pre' = Snapshot
            /\ returned' = IF IsOk(out.ret) /\ register \notin DOMAIN returned
                           THEN Insert(returned, register, out.ret.v)
                           ELSE returned
            /\ calls' = calls + 1
            /\ Config
            /\ UNCHANGED cfi_rules

\* Evaluator::evaluate_all_registers
EvaluateAllRegisters ==
    LET out == evaluate_all_registers(cfi_rules, registers, register_cache,
                                      memory, endian, overflow_checks)
    IN  /\ CanCall /\ calls < MaxCalls
        /\ registers' = out.registers
        /\ register_cache' = out.register_cache
        /\ call' = [op |-> "evaluate_all_registers"]
        /\ ret' = out.ret
        /\ pre' = Snapshot
        /\ calls' = calls + 1
        /\ Config
        /\ UNCHANGED <<cfi_rules, returned>>

\* Evaluator::process_rules
ProcessRules ==
    \E parsed \in ParsedInputs :
        LET rules == IF IsOk(parsed) THEN add_all(cfi_rules, parsed.v) ELSE cfi_rules
            out == IF IsOk(parsed)
                   THEN evaluate_all_registers(rules, registers, register_cache,
                                               memory, endian, overflow_checks)
                   ELSE Outcome(parsed, registers, register_cache)
        IN  /\ CanCall /\ calls < MaxRuleCalls
            /\ cfi_rules' = rules
            /\ registers' = out.registers
            /\ register_cache' = out.register_cache
            /\ call' = [op |-> "process_rules", input |-> parsed]
            /\ ret' = out.ret
            /\ pre' = Snapshot
            /\ calls' = calls + 1
            /\ Config
            /\ UNCHANGED returned

\* The expressions given to evaluate: a dereference of each address around
\* the memory region, of a register, and of a value read from memory.
DerefPool ==
    {Deref(Value(a)) : a \in 10..15}
    \cup {Deref(Reg(R0)), Deref(Op(Reg(R0), Value(4), "Sub")), Deref(Deref(Value(12)))}

\* Evaluator::evaluate
Evaluate ==
    \E expr \in DerefPool :
        /\ CanCall /\ calls < MaxCalls
        /\ call' = [op |-> "evaluate", expr |-> expr]
        /\ ret' = evaluate_inner(expr, registers, memory, endian, overflow_checks)
        /\ pre' = Snapshot
        /\ calls' = calls + 1
        /\ Config
        /\ UNCHANGED <<registers, register_cache, cfi_rules, returned>>

ExprNext == Evaluate

EvalNext == AddCfiRule \/ EvaluateRegister \/ EvaluateAllRegisters

RulesNext == ProcessRules \/ EvaluateAllRegisters

\* No symbol file is open.
NoRecords ==
    /\ iterator = None
    /\ yields = <<>>
    /\ child = None
    /\ owner = None

NoFile ==
    /\ NoRecords
    /\ data = <<>>
    /\ file_map = None
    /\ func_records = None
    /\ record = None
    /\ line_records = None
    /\ items = <<>>
    /\ ended = FALSE
    /\ first = None

Init == EvalInit /\ NoFile

Next == EvalNext

\* An evaluator given rules one at a time and asked for registers.
Spec == Init /\ [][Next]_vars

\* An evaluator given whole rule strings.
SpecRules == Init /\ [][RulesNext]_vars

\* An evaluator asked for the value of expressions.
SpecExpr == Init /\ [][ExprNext]_vars

-----------------------------------------------------------------------------
(* Claims about the evaluator *)

\* The last call evaluated every rule and returned the map of the results.
ReturnedAll == call.op \in {"process_rules", "evaluate_all_registers"} /\ IsOk(ret)

\* The registers a rule other than .cfa's is meant to see: those the call
\* found, with .cfa bound to what the rule for .cfa makes of them.
WithNewCfa(regs) ==
    LET cfa == IF Cfa \in DOMAIN cfi_rules
               THEN evaluate_inner(cfi_rules[Cfa], regs, memory, endian, overflow_checks)
               ELSE Err(NoRuleForRegister(Cfa))
    IN  IF IsOk(cfa) THEN Insert(regs, Cfa, cfa.v) ELSE regs

FromOldRegisters(r) ==
    evaluate_inner(cfi_rules[r], WithNewCfa(pre.registers), memory, endian, overflow_checks)
        = Ok(ret.v[r])

\* C1 as stated: whenever process_rules or evaluate_all_registers returns a map
\* on an evaluator whose registers did not bind .cfa, every register but .cfa
\* has the value of its rule on the registers before the call, with .cfa bound
\* to the value of the rule for .cfa.
C1_AsStated ==
    (ReturnedAll /\ Cfa \notin DOMAIN pre.registers)
        => \A r \in DOMAIN ret.v \ {Cfa} : FromOldRegisters(r)

\* The rules of the input of the last process_rules call, in another order,
\* give the same result on the evaluator the call found.
SameInEveryOrder ==
    \A o \in Orderings({call.input.v[i] : i \in 1..Len(call.input.v)}) :
        evaluate_all_registers(add_all(pre.cfi_rules, o), pre.registers,
                               pre.register_cache, memory, endian, overflow_checks).ret = ret

\* C1, amended: the same, on an evaluator whose registers do not bind .cfa and
\* whose cache is empty; and the map process_rules returns is the same for
\* every order of the rules of its input.
C1_FreshEvaluator ==
    (ReturnedAll /\ Cfa \notin DOMAIN pre.registers /\ pre.register_cache = EmptyMap)
        => /\ \A r \in DOMAIN ret.v \ {Cfa} : FromOldRegisters(r)
           /\ call.op = "process_rules" => SameInEveryOrder

\* C1's case: the example of process_rules, on registers {$r0: 17}: $r1 is
\* the new .cfa plus the old $r0, although $r0 has a new value as well.
C1_Witness ==
    /\ call.op = "process_rules" /\ IsOk(ret)
    /\ pre.registers = (R0 :> 17) /\ pre.register_cache = EmptyMap
    /\ Len(call.input.v) = 3 /\ call.input.v[1][1] = R1
    /\ ret.v = (Cfa :> 13 @@ R0 :> 3 @@ R1 :> 30)

\* The rules of registers other than .cfa that the last call evaluated and
\* that contain .cfa.
EvaluatedWithCfa ==
    {r \in DOMAIN cfi_rules \ {Cfa} :
        /\ contains_cfa(cfi_rules[r])
        /\ r \notin DOMAIN pre.register_cache
        /\ \/ call.op = "evaluate_register" /\ call.register = r
           \/ call.op = "evaluate_all_registers"}

\* The value the last call returned for register r.
ReturnedFor(r) == IF call.op = "evaluate_register" THEN ret.v ELSE ret.v[r]

\* C2 as stated: whatever the register map binds, when there is a rule for
\* .cfa, a rule that contains .cfa is evaluated with .cfa bound to the value of
\* the rule for .cfa.
C2_CfaRuleFirst ==
    (call.op \in {"evaluate_register", "evaluate_all_registers"} /\ IsOk(ret)
     /\ Cfa \in DOMAIN cfi_rules)
        => \A r \in EvaluatedWithCfa :
              LET cfa == IF Cfa \in DOMAIN register_cache THEN Ok(register_cache[Cfa])
                         ELSE evaluate_inner(cfi_rules[Cfa], pre.registers, memory,
                                             endian, overflow_checks)
              IN  /\ IsOk(cfa)
                  /\ evaluate_inner(cfi_rules[r], Insert(pre.registers, Cfa, cfa.v),
                                    memory, endian, overflow_checks) = Ok(ReturnedFor(r))

\* C6: once evaluate_register(r) has returned a value, every later
\* evaluate_register(r) returns that value and leaves registers, rules and
\* cache as they were, whatever rules were added in between.
C6_CachedForever ==
    (call.op = "evaluate_register" /\ call.register \in DOMAIN pre.returned)
        => /\ ret = Ok(pre.returned[call.register])
           /\ registers = pre.registers
           /\ cfi_rules = pre.cfi_rules
           /\ register_cache = pre.register_cache

\* C6's case: the register is asked for again after its rule was overwritten
\* by one that now evaluates to something else.
C6_Witness ==
    /\ call.op = "evaluate_register" /\ call.register \in DOMAIN pre.returned
    /\ IsOk(ret)
    /\ LET now == evaluate_inner(cfi_rules[call.register], registers, memory, endian,
                                 overflow_checks)
       IN  IsOk(now) /\ now # ret

\* The register whose evaluation failed in the last call is not cached: the
\* one asked for, or the first rule key that evaluate_all_registers did not
\* get through.
FailedNotCached ==
    IF call.op = "evaluate_register" THEN call.register \notin DOMAIN register_cache
    ELSE LET keys == Keys(cfi_rules)
         IN  \E i \in 1..Len(keys) :
                /\ keys[i] \notin DOMAIN register_cache
                /\ \A j \in 1..(i - 1) : keys[j] \in DOMAIN register_cache

\* C7: when evaluate_register or evaluate_all_registers returns an error, the
\* rules and the memory are unchanged, the registers differ at most by a new
\* binding of .cfa, the cache keeps what it had and has no entry for the
\* register whose evaluation failed.
C7_FailureLeavesState ==
    (call.op \in {"evaluate_register", "evaluate_all_registers"} /\ IsErr(ret))
        => /\ cfi_rules = pre.cfi_rules
           /\ memory = pre.memory
           /\ \/ registers = pre.registers
              \/ /\ Cfa \notin DOMAIN pre.registers
                 /\ Cfa \in DOMAIN registers
                 /\ registers = Insert(pre.registers, Cfa, registers[Cfa])
           /\ \A r \in DOMAIN pre.register_cache :
                 r \in DOMAIN register_cache /\ register_cache[r] = pre.register_cache[r]
           /\ FailedNotCached

\* C7's case: evaluate_all_registers fails after it has evaluated .cfa, which
\* it leaves in the registers and in the cache.
C7_Witness ==
    /\ call.op = "evaluate_all_registers" /\ IsErr(ret)
    /\ Cfa \in DOMAIN registers \ DOMAIN pre.registers
    /\ Cfa \in DOMAIN register_cache \ DOMAIN pre.register_cache

NoRuleAtAll(r) == r \notin DOMAIN cfi_rules

\* The rule of r contains .cfa, which is neither bound nor has a rule.
NoWayToCfa(r) ==
    /\ r \in DOMAIN cfi_rules /\ contains_cfa(cfi_rules[r])
    /\ Cfa \notin DOMAIN pre.registers
    /\ Cfa \notin DOMAIN cfi_rules

\* C8 as stated: evaluate_register(r) fails with NoRuleForRegister(r) when r
\* has no rule, and with NoRuleForRegister(.cfa) when the rule of r contains
\* .cfa while .cfa is not bound and has no rule.
C8_AsStated ==
    call.op = "evaluate_register"
        => /\ NoRuleAtAll(call.register) => ret = Err(NoRuleForRegister(call.register))
           /\ NoWayToCfa(call.register) => ret = Err(NoRuleForRegister(Cfa))

\* C8, amended: the second failure is that of a register with no cached value.
C8_NoRule ==
    call.op = "evaluate_register"
        => /\ NoRuleAtAll(call.register) => ret = Err(NoRuleForRegister(call.register))
           /\ (NoWayToCfa(call.register) /\ call.register \notin DOMAIN pre.register_cache)
                 => ret = Err(NoRuleForRegister(Cfa))

\* C8's case: the rule of an uncached register contains .cfa, which can be
\* had from nowhere, on an evaluator that has failed before on a register
\* that is bound but has no rule.
C8_Witness ==
    /\ call.op = "evaluate_register"
    /\ NoWayToCfa(call.register) /\ call.register \notin DOMAIN pre.register_cache
    /\ ret = Err(NoRuleForRegister(Cfa))
    /\ DOMAIN registers \ DOMAIN cfi_rules # {}

\* C9: the map a successful evaluate_all_registers returns has exactly the
\* registers that have a rule.
C9_KeysAreRuleKeys ==
    (call.op = "evaluate_all_registers" /\ IsOk(ret)) => DOMAIN ret.v = DOMAIN cfi_rules

\* C9's case: a register is bound and has no rule, others have rules, one of
\* them already cached.
C9_Witness ==
    /\ call.op = "evaluate_all_registers" /\ IsOk(ret)
    /\ DOMAIN registers \ DOMAIN cfi_rules # {}
    /\ DOMAIN pre.register_cache # {}
    /\ DOMAIN cfi_rules # DOMAIN pre.register_cache

\* The integer stored in the bytes, the first byte weighing most.
RECURSIVE StoredBE(_)
StoredBE(bytes) ==
    IF Len(bytes) = 0 THEN 0
    ELSE bytes[1] * (256 ^ (Len(bytes) - 1)) + StoredBE(Tail(bytes))

\* The integer stored in the bytes, the first byte weighing least.
RECURSIVE StoredLE(_)
StoredLE(bytes) ==
    IF Len(bytes) = 0 THEN 0
    ELSE bytes[1] + 256 * StoredLE(Tail(bytes))

\* The address of the dereference the last call evaluated.
DerefAddress ==
    evaluate_inner(call.expr.e, registers, memory, endian, overflow_checks)

\* The last call evaluated a dereference whose address could be evaluated.
Dereferenced == call.op = "evaluate" /\ call.expr.t = "Deref" /\ IsOk(DerefAddress)

-----------------------------------------------------------------------------
(* Text: a str or a byte slice is the sequence of its characters *)

\* a byte that is not part of any valid UTF-8 sequence
InvalidByte == "<FF>"

\* The two bytes of a code point that takes two bytes, such as U+00E9
LeadByte == "<C3>"

ContinuationByte == "<A9>"

\* Utf8Error: the bytes before the error are valid; error_len is None when the
\* input ends within a code point, and the length of the invalid sequence
\* otherwise.
Utf8Error(valid_up_to, error_len) ==
    [valid_up_to |-> valid_up_to, error_len |-> error_len]

\* The byte at position i is not part of a code point: it is no byte of any, it
\* continues nothing, or it starts a code point that is not continued.
malformed(bytes, i) ==
    \/ bytes[i] = InvalidByte
    \/ bytes[i] = ContinuationByte /\ (i = 1 \/ bytes[i - 1] # LeadByte)
    \/ bytes[i] = LeadByte /\ (i = Len(bytes) \/ bytes[i + 1] # ContinuationByte)

\* The error at position i, before which the bytes are valid
utf8_error(bytes, i) ==
    Utf8Error(i - 1, IF bytes[i] = LeadByte /\ i = Len(bytes) THEN None ELSE Some(1))

\* str::from_utf8: None, or the first error
from_utf8(bytes) ==
    IF \A i \in DOMAIN bytes : ~malformed(bytes, i) THEN None
    ELSE Some(utf8_error(bytes, CHOOSE i \in DOMAIN bytes :
                  malformed(bytes, i) /\ \A j \in 1..(i - 1) : ~malformed(bytes, j)))

\* str::from_utf8 succeeds
from_utf8_ok(bytes) == from_utf8(bytes) = None

\* char::is_whitespace, for the characters that occur within a line
is_whitespace(c) == c \in {" ", "\t"}

\* <[u8]>::starts_with, str::starts_with
starts_with(s, prefix) ==
    Len(s) >= Len(prefix) /\ SubSeq(s, 1, Len(prefix)) = prefix

\* str::strip_prefix
strip_prefix(s, prefix) ==
    IF starts_with(s, prefix) THEN Some(SubSeq(s, Len(prefix) + 1, Len(s))) ELSE None

RECURSIVE trim_start(_)
\* str::trim_start
trim_start(s) ==
    IF s # <<>> /\ is_whitespace(Head(s)) THEN trim_start(Tail(s)) ELSE s

\* The position of the first whitespace character of s, or 0.
find_whitespace(s) ==
    IF \E i \in DOMAIN s : is_whitespace(s[i])
    THEN CHOOSE i \in DOMAIN s :
             is_whitespace(s[i]) /\ \A j \in 1..(i - 1) : ~is_whitespace(s[j])
    ELSE 0

RECURSIVE splitn(_, _)
\* str::splitn(n, char::is_whitespace), n >= 1: the parts, the last one being
\* the unsplit remainder
splitn(n, s) ==
    LET i == find_whitespace(s)
    IN  IF n <= 1 \/ i = 0 THEN <<s>>
        ELSE <<SubSeq(s, 1, i - 1)>> \o splitn(n - 1, SubSeq(s, i + 1, Len(s)))

\* char::to_digit(36)
DigitValue ==
    "0" :> 0 @@ "1" :> 1 @@ "2" :> 2 @@ "3" :> 3 @@ "4" :> 4 @@ "5" :> 5 @@ "6" :> 6
    @@ "7" :> 7 @@ "8" :> 8 @@ "9" :> 9
    @@ "a" :> 10 @@ "b" :> 11 @@ "c" :> 12 @@ "d" :> 13 @@ "e" :> 14 @@ "f" :> 15
    @@ "A" :> 10 @@ "B" :> 11 @@ "C" :> 12 @@ "D" :> 13 @@ "E" :> 14 @@ "F" :> 15

is_digit(c, radix) == c \in DOMAIN DigitValue /\ DigitValue[c] < radix

RECURSIVE trim_zeros(_)
trim_zeros(digits) ==
    IF digits # <<>> /\ Head(digits) = "0" THEN trim_zeros(Tail(digits)) ELSE digits

\* u64::MAX in each radix
U64Max(radix) ==
    IF radix = 16
    THEN [i \in 1..16 |-> "f"]
    ELSE <<"1", "8", "4", "4", "6", "7", "4", "4", "0", "7",
           "3", "7", "0", "9", "5", "5", "1", "6", "1", "5">>

RECURSIVE digits_greater(_, _)
\* digit strings of one length: a denotes a greater number than b
digits_greater(a, b) ==
    /\ a # <<>>
    /\ \/ DigitValue[Head(a)] > DigitValue[Head(b)]
       \/ DigitValue[Head(a)] = DigitValue[Head(b)] /\ digits_greater(Tail(a), Tail(b))

RECURSIVE digits_value(_, _, _)
digits_value(digits, radix, acc) ==
    IF digits = <<>> THEN acc
    ELSE digits_value(Tail(digits), radix, acc * radix + DigitValue[Head(digits)])

\* The value of a string of digits without leading zeros, or None when it
\* exceeds u64::MAX (PosOverflow).
checked_value(significant, radix) ==
    IF Len(significant) > Len(U64Max(radix)) THEN None
    ELSE IF Len(significant) = Len(U64Max(radix))
            /\ digits_greater(significant, U64Max(radix)) THEN None
    ELSE Some(digits_value(significant, radix, 0))

\* The value of a string of digits, or None when one of its characters is not
\* a digit of the radix (InvalidDigit): '-' is not a digit of an unsigned type.
digits_to_u64(digits, radix) ==
    IF \E i \in DOMAIN digits : ~is_digit(digits[i], radix) THEN None
    ELSE checked_value(trim_zeros(digits), radix)

\* u64::from_str_radix(src, radix): the value, or None for every ParseIntError
\* (Empty, InvalidDigit, PosOverflow). One leading '+' is accepted.
from_str_radix(src, radix) ==
    IF src = <<>> THEN None
    ELSE digits_to_u64(IF Len(src) > 1 /\ Head(src) = "+" THEN Tail(src) ELSE src, radix)

\* BreakpadError { kind: Parse(what) }
Parse(what) == [kind |-> "Parse", what |-> what]

BadEncoding == [kind |-> "BadEncoding"]

\* .map_err(|_| what.into()) on the outcome of from_str_radix
map_err(n, what) == IF n = None THEN Err(Parse(what)) ELSE Ok(n.val)

\* num_hex_64
num_hex_64(input) == map_err(from_str_radix(input, 16), "NumHex")

\* num_dec_64
num_dec_64(input) == map_err(from_str_radix(input, 10), "NumDec")

-----------------------------------------------------------------------------
(* Breakpad records and their iterators *)

\* UNKNOWN_NAME
UNKNOWN_NAME == <<"<", "u", "n", "k", "n", "o", "w", "n", ">">>

\* Lines::new(data): a cursor is the lines it has yet to yield
Lines_new(buffer) == buffer

\* Lines::default(): a cursor over nothing
Lines_default == <<>>

\* Lines::next: the next line, and the advanced cursor
Lines_next(lines) ==
    IF lines # <<>>
    THEN [item |-> Some(Head(lines)), lines |-> Tail(lines)]
    ELSE [item |-> None, lines |-> lines]

\* What next() of a record iterator returns: the item, and the iterator after
\* the call.
Yield(item, self) == [item |-> item, self |-> self]

\* The iterator after it has read a line: n is what Lines_next returned.
advanced(self, n) == [self EXCEPT !.lines = n.lines]

\* The iterator after it has left its loop: `self.finished = true`.
finished(self, n) == [self EXCEPT !.lines = n.lines, !.finished = TRUE]

\* The part at position i, had the name of a record been its first word.
name_first_word(parts, i) ==
    IF Len(parts) >= i THEN splitn(2, parts[i])[1] ELSE UNKNOWN_NAME

\* parts.next().unwrap_or(UNKNOWN_NAME) for the part at position i
name_or_unknown(parts, i) == IF Len(parts) >= i THEN parts[i] ELSE UNKNOWN_NAME

\* BreakpadFileRecord::parse, from the splitn(2, ..) of the line after its tag
file_record(parts, id) ==
    IF ~IsOk(id) THEN id
    ELSE Ok([id |-> id.v, name |-> name_or_unknown(parts, 2)])

\* BreakpadFileRecord::parse, from what strip_prefix("FILE") returned
file_record_stripped(stripped) ==
    IF stripped = None THEN Err(Parse("FileRecord"))
    ELSE file_record(splitn(2, trim_start(stripped.val)),
                     num_dec_64(splitn(2, trim_start(stripped.val))[1]))

\* BreakpadFileRecord::parse
BreakpadFileRecord_parse(line) ==
    IF ~from_utf8_ok(line) THEN Err(BadEncoding)
    ELSE file_record_stripped(strip_prefix(line, <<"F", "I", "L", "E">>))

RECURSIVE BreakpadFileRecords_next(_)

\* The body of the loop of BreakpadFileRecords::next
file_records_line(self, n) ==
    IF n.item = None THEN Yield(None, finished(self, n))
    ELSE IF \/ starts_with(n.item.val, <<"M", "O", "D", "U", "L", "E", " ">>)
            \/ starts_with(n.item.val, <<"I", "N", "F", "O", " ">>)
         THEN BreakpadFileRecords_next(advanced(self, n))
    ELSE IF ~starts_with(n.item.val, <<"F", "I", "L", "E", " ">>)
         THEN Yield(None, finished(self, n))
    ELSE Yield(Some(BreakpadFileRecord_parse(n.item.val)), advanced(self, n))

\* BreakpadFileRecords::next
BreakpadFileRecords_next(self) ==
    IF self.finished THEN Yield(None, self)
    ELSE file_records_line(self, Lines_next(self.lines))

\* BreakpadObject::file_records
BreakpadObject_file_records(buffer) == [lines |-> Lines_new(buffer), finished |-> FALSE]

RECURSIVE collect_file_map(_, _)

\* The same, had the first record of an id kept its entry.
collect_file_first(n, map) ==
    IF n.item = None THEN map
    ELSE IF IsOk(n.item.val) /\ n.item.val.v.id \notin DOMAIN map
         THEN collect_file_map(n.self, Insert(map, n.item.val.v.id, n.item.val.v.name))
    ELSE collect_file_map(n.self, map)

\* .filter_map(Result::ok).map(|file| (file.id, file.name)) and the insert of
\* collect(), for one item of the iterator
collect_file(n, map) ==
    IF n.item = None THEN map
    ELSE IF IsOk(n.item.val)
         THEN collect_file_map(n.self, Insert(map, n.item.val.v.id, n.item.val.v.name))
    ELSE collect_file_map(n.self, map)

\* .filter_map(Result::ok).map(|file| (file.id, file.name)).collect()
collect_file_map(records, map) == collect_file(BreakpadFileRecords_next(records), map)

\* BreakpadObject::file_map
BreakpadObject_file_map(buffer) ==
    collect_file_map(BreakpadObject_file_records(buffer), EmptyMap)

\* BreakpadFuncRecord::parse, from the three numbers of the line
func_record(multiple, parts, address, size, parameter_size) ==
    IF ~IsOk(address) THEN address
    ELSE IF Len(parts) < 2 THEN Err(Parse("FuncRecord"))
    ELSE IF ~IsOk(size) THEN size
    ELSE IF Len(parts) < 3 THEN Err(Parse("FuncRecord"))
    ELSE IF ~IsOk(parameter_size) THEN parameter_size
    ELSE Ok([multiple |-> multiple,
             address |-> address.v,
             size |-> size.v,
             parameter_size |-> parameter_size.v,
             name |-> name_or_unknown(parts, 4),
             lines |-> Lines_default])

\* BreakpadFuncRecord::parse, from the splitn(4, ..) of the line after its tag
\* and its flag
func_record_parts(multiple, parts) ==
    func_record(multiple, parts,
                num_hex_64(parts[1]), num_hex_64(parts[2]), num_hex_64(parts[3]))

\* BreakpadFuncRecord::parse, from the line after its tag and what
\* strip_prefix("m") returned of it
func_record_flag(current, rest) ==
    IF rest # None
    THEN func_record_parts(TRUE, splitn(4, trim_start(rest.val)))
    ELSE func_record_parts(FALSE, splitn(4, current))

\* BreakpadFuncRecord::parse, from what strip_prefix("FUNC") returned
func_record_stripped(stripped) ==
    IF stripped = None THEN Err(Parse("FuncRecord"))
    ELSE func_record_flag(trim_start(stripped.val),
                          strip_prefix(trim_start(stripped.val), <<"m">>))

\* BreakpadFuncRecord::parse
BreakpadFuncRecord_parse(line) ==
    IF ~from_utf8_ok(line) THEN Err(BadEncoding)
    ELSE func_record_stripped(strip_prefix(line, <<"F", "U", "N", "C">>))

\* BreakpadFuncRecord::lines: the cursor of the record is cloned
BreakpadFuncRecord_lines(self) == [lines |-> self.lines, finished |-> FALSE]

\* BreakpadObject::func_records
BreakpadObject_func_records(buffer) == [lines |-> Lines_new(buffer), finished |-> FALSE]

\* `record.lines = self.lines.clone()` on a record that parsed
with_lines(parsed, lines) ==
    IF IsOk(parsed) THEN Ok([parsed.v EXCEPT !.lines = lines]) ELSE parsed

RECURSIVE BreakpadFuncRecords_next(_)

\* The body of the loop of BreakpadFuncRecords::next
func_records_line(self, n) ==
    IF n.item = None THEN Yield(None, finished(self, n))
    ELSE IF starts_with(n.item.val, <<"S", "T", "A", "C", "K", " ">>)
         THEN Yield(None, finished(self, n))
    ELSE IF ~starts_with(n.item.val, <<"F", "U", "N", "C", " ">>)
         THEN BreakpadFuncRecords_next(advanced(self, n))
    ELSE Yield(Some(with_lines(BreakpadFuncRecord_parse(n.item.val), n.lines)),
               advanced(self, n))

\* BreakpadFuncRecords::next
BreakpadFuncRecords_next(self) ==
    IF self.finished THEN Yield(None, self)
    ELSE func_records_line(self, Lines_next(self.lines))

\* BreakpadLineRecord::parse, from the four numbers of the line
line_record(parts, address, size, line, file_id) ==
    IF ~IsOk(address) THEN address
    ELSE IF Len(parts) < 2 THEN Err(Parse("LineRecord"))
    ELSE IF ~IsOk(size) THEN size
    ELSE IF Len(parts) < 3 THEN Err(Parse("LineRecord"))
    ELSE IF ~IsOk(line) THEN line
    ELSE IF Len(parts) < 4 THEN Err(Parse("LineRecord"))
    ELSE IF ~IsOk(file_id) THEN file_id
    ELSE Ok([address |-> address.v, size |-> size.v,
             line |-> line.v, file_id |-> file_id.v])

\* BreakpadLineRecord::parse, from the splitn(4, ..) of the line
line_record_parts(parts) ==
    line_record(parts, num_hex_64(parts[1]), num_hex_64(parts[2]),
                num_dec_64(parts[3]), num_dec_64(parts[4]))

\* BreakpadLineRecord::parse
BreakpadLineRecord_parse(data_line) ==
    IF ~from_utf8_ok(data_line) THEN Err(BadEncoding)
    ELSE line_record_parts(splitn(4, data_line))

\* BreakpadLineRecord::filename, had the file map never known the file.
filename_unknown(self, map) == None

\* BreakpadLineRecord::filename
BreakpadLineRecord_filename(self, map) ==
    IF self.file_id \in DOMAIN map THEN Some(map[self.file_id]) ELSE None

\* The line ends the line records of a FUNC record.
ends_line_records(line) ==
    \/ starts_with(line, <<"F", "U", "N", "C", " ">>)
    \/ starts_with(line, <<"P", "U", "B", "L", "I", "C", " ">>)
    \/ starts_with(line, <<"S", "T", "A", "C", "K", " ">>)

RECURSIVE BreakpadLineRecords_next(_)

\* The end of the loop body of BreakpadLineRecords::next, had it yielded the
\* records of empty ranges too.
line_records_unfiltered(self, parsed) == Yield(Some(parsed), self)

\* The end of the loop body of BreakpadLineRecords::next: parsed is what
\* BreakpadLineRecord::parse returned for the line, self is the iterator
\* after it has read the line
line_records_parsed(self, parsed) ==
    IF ~IsOk(parsed) THEN Yield(Some(parsed), self)
    ELSE IF parsed.v.size > 0 THEN Yield(Some(parsed), self)
    ELSE BreakpadLineRecords_next(self)

\* The body of the loop of BreakpadLineRecords::next
line_records_line(self, n) ==
    IF n.item = None THEN Yield(None, finished(self, n))
    ELSE IF ends_line_records(n.item.val) THEN Yield(None, finished(self, n))
    ELSE IF n.item.val = <<>> THEN BreakpadLineRecords_next(advanced(self, n))
    ELSE line_records_parsed(advanced(self, n), BreakpadLineRecord_parse(n.item.val))

\* BreakpadLineRecords::next
BreakpadLineRecords_next(self) ==
    IF self.finished THEN Yield(None, self)
    ELSE line_records_line(self, Lines_next(self.lines))

\* FileInfo::from_path: the file of a path
FileInfo_from_path(path) == [from_path |-> path]

\* Name::new(name, NameMangling::Unmangled, Language::Unknown)
Name_new(string) == [string |-> string, mangling |-> "Unmangled", lang |-> "Unknown"]

\* .unwrap_or_default() on an Option<&str>
unwrap_or_default(filename) == IF filename = None THEN <<>> ELSE filename.val

\* the LineInfo that convert pushes for a line record
LineInfo(line, map) ==
    [address |-> line.address,
     size |-> Some(line.size),
     file |-> FileInfo_from_path(unwrap_or_default(BreakpadLineRecord_filename(line, map))),
     line |-> line.line]

RECURSIVE convert_lines(_, _, _)

\* The body of the loop of convert, for one item of record.lines()
convert_line(map, n, lines) ==
    IF n.item = None THEN Ok(lines)
    ELSE IF ~IsOk(n.item.val) THEN n.item.val
    ELSE convert_lines(map, n.self, Append(lines, LineInfo(n.item.val.v, map)))

\* The loop of convert over record.lines(): the vector of lines, or the first
\* error
convert_lines(map, line_iter, lines) ==
    convert_line(map, BreakpadLineRecords_next(line_iter), lines)

\* The Function that convert returns, given the outcome of its loop
converted(func, lines) ==
    IF ~IsOk(lines) THEN lines
    ELSE Ok([address |-> func.address,
             size |-> func.size,
             name |-> Name_new(func.name),
             compilation_dir |-> <<>>,
             lines |-> lines.v,
             inlinees |-> <<>>,
             inline |-> FALSE])

\* BreakpadFunctionIterator::convert
convert(map, func) ==
    converted(func, convert_lines(map, BreakpadFuncRecord_lines(func), <<>>))

\* The match of BreakpadFunctionIterator::next on what func_records.next()
\* returned
function_item(map, n) ==
    IF n.item = None THEN n
    ELSE IF IsOk(n.item.val) THEN Yield(Some(convert(map, n.item.val.v)), n.self)
    ELSE n

\* BreakpadFunctionIterator::next: the item, and the func_records of the
\* iterator after the call
BreakpadFunctionIterator_next(map, records) ==
    function_item(map, BreakpadFuncRecords_next(records))

-----------------------------------------------------------------------------
(* The operations on a Breakpad symbol file *)

\* The longest buffer, in lines.
MaxLines == 4

\* "FILE 2 a.c"
FileLine == <<"F", "I", "L", "E", " ", "2", " ", "a", ".", "c">>

\* "FUNC 10 6 0 f"
FuncLine == <<"F", "U", "N", "C", " ", "1", "0", " ", "6", " ", "0", " ", "f">>

\* "10 4 7 2": a line record of 4 bytes, line 7 of file 2
LineLine == <<"1", "0", " ", "4", " ", "7", " ", "2">>

\* "14 0 8 2": a line record of an empty range
EmptyRangeLine == <<"1", "4", " ", "0", " ", "8", " ", "2">>

\* "zz": a line that no decoder accepts
BadLine == <<"z", "z">>

\* "PUBLIC 20 0 p"
PublicLine == <<"P", "U", "B", "L", "I", "C", " ", "2", "0", " ", "0", " ", "p">>

\* "STACK x"
StackLine == <<"S", "T", "A", "C", "K", " ", "x">>

\* The lines that follow FUNC records, and the lines that end them.
FuncLinePool == {FuncLine, LineLine, EmptyRangeLine, <<>>, BadLine, PublicLine, StackLine}

LinePool == FuncLinePool \cup {FileLine}

\* The buffers of at most MaxLines lines drawn from pool.
Buffers(pool) == UNION {[1..n -> pool] : n \in 0..MaxLines}

\* No evaluator is at work.
NoEvaluator ==
    /\ memory = None
    /\ registers = EmptyMap
    /\ endian = "Little"
    /\ register_cache = EmptyMap
    /\ cfi_rules = EmptyMap
    /\ overflow_checks = FALSE
    /\ call = [op |-> "new"]
    /\ ret = Ok(0)
    /\ pre = [memory |-> None, registers |-> EmptyMap, register_cache |-> EmptyMap,
              cfi_rules |-> EmptyMap, returned |-> EmptyMap]
    /\ returned = EmptyMap
    /\ calls = 0

\* A BreakpadObject over a buffer, and its func_records().
FuncInit ==
    /\ data \in Buffers(FuncLinePool)
    /\ file_map = None
    /\ func_records = Some(BreakpadObject_func_records(data))
    /\ record = None
    /\ line_records = None
    /\ items = <<>>
    /\ ended = FALSE
    /\ first = None
    /\ NoRecords
    /\ NoEvaluator

\* func_records.next()
FuncRecordsNext ==
    LET n == BreakpadFuncRecords_next(func_records.val)
    IN  /\ file_map = None /\ func_records # None
        /\ func_records' = Some(n.self)
        /\ record' = n.item
        /\ line_records' = None
        /\ items' = <<>>
        /\ ended' = FALSE
        /\ first' = None
        /\ UNCHANGED <<data, file_map, svars, evars>>

\* The user holds a FuncRecord F.
HasRecord == record # None /\ IsOk(record.val)

\* F.lines()
Lines ==
    /\ HasRecord
    /\ line_records' = Some(BreakpadFuncRecord_lines(record.val.v))
    /\ first' = IF line_records # None /\ first = None
                THEN Some([items |-> items, ended |-> ended])
                ELSE first
    /\ items' = <<>>
    /\ ended' = FALSE
    /\ UNCHANGED <<data, file_map, func_records, record, svars, evars>>

\* next() on the iterator obtained from F.lines(), had that iterator and F
\* shared one cursor.
LineRecordsNext_Shared ==
    LET n == BreakpadLineRecords_next(line_records.val)
    IN  /\ line_records # None
        /\ line_records' = Some(n.self)
        /\ record' = Some(Ok([record.val.v EXCEPT !.lines = n.self.lines]))
        /\ items' = IF n.item = None THEN items ELSE Append(items, n.item.val)
        /\ ended' = (n.item = None)
        /\ UNCHANGED <<data, file_map, func_records, first, svars, evars>>

\* next() on the iterator obtained from F.lines()
LineRecordsNext ==
    LET n == BreakpadLineRecords_next(line_records.val)
    IN  /\ line_records # None
        /\ line_records' = Some(n.self)
        /\ items' = IF n.item = None THEN items ELSE Append(items, n.item.val)
        /\ ended' = (n.item = None)
        /\ UNCHANGED <<data, file_map, func_records, record, first, svars, evars>>

FuncNext == FuncRecordsNext \/ Lines \/ LineRecordsNext

\* The FUNC records of a symbol file and their line records.
SpecFunc == FuncInit /\ [][FuncNext]_vars

\* A BreakpadObject over a buffer.
SessionInit ==
    /\ data \in Buffers(LinePool)
    /\ file_map = None
    /\ func_records = None
    /\ record = None
    /\ line_records = None
    /\ items = <<>>
    /\ ended = FALSE
    /\ first = None
    /\ NoRecords
    /\ NoEvaluator

\* BreakpadObject::debug_session
DebugSession ==
    /\ file_map = None /\ func_records = None
    /\ file_map' = Some(BreakpadObject_file_map(data))
    /\ UNCHANGED <<data, func_records, record, line_records, items, ended, first, svars, evars>>

\* BreakpadDebugSession::functions: the func_records of the session, which
\* are those of BreakpadObject::func_records, are cloned
Functions ==
    /\ file_map # None
    /\ func_records' = Some(BreakpadObject_func_records(data))
    /\ items' = <<>>
    /\ ended' = FALSE
    /\ UNCHANGED <<data, file_map, record, line_records, first, svars, evars>>

\* next() on the iterator obtained from functions()
FunctionIteratorNext ==
    LET n == BreakpadFunctionIterator_next(file_map.val, func_records.val)
    IN  /\ file_map # None /\ func_records # None
        /\ func_records' = Some(n.self)
        /\ items' = IF n.item = None THEN items ELSE Append(items, n.item.val)
        /\ ended' = (n.item = None)
        /\ UNCHANGED <<data, file_map, record, line_records, first, svars, evars>>

SessionNext == DebugSession \/ Functions \/ FunctionIteratorNext

\* The debug session of a symbol file and its functions.
SpecSession == SessionInit /\ [][SessionNext]_vars

-----------------------------------------------------------------------------
(* Claims about the symbol file *)

\* The positions of the buffer, in source order.
Positions == [j \in 1..Len(data) |-> j]

\* The position of the first line starting with 'STACK ', or the end of the
\* buffer.
FirstStack ==
    IF \E j \in DOMAIN data : starts_with(data[j], <<"S", "T", "A", "C", "K", " ">>)
    THEN CHOOSE j \in DOMAIN data :
             /\ starts_with(data[j], <<"S", "T", "A", "C", "K", " ">>)
             /\ \A h \in 1..(j - 1) : ~starts_with(data[h], <<"S", "T", "A", "C", "K", " ">>)
    ELSE Len(data) + 1

\* The positions of the FUNC lines before the first STACK line.
FuncPositions ==
    SelectSeq(Positions,
              LAMBDA j : j < FirstStack /\ starts_with(data[j], <<"F", "U", "N", "C", " ">>))

\* The position of the first line after i starting with 'FUNC ', 'PUBLIC ' or
\* 'STACK ', or the end of the buffer.
ChildEnd(i) ==
    IF \E j \in (i + 1)..Len(data) : ends_line_records(data[j])
    THEN CHOOSE j \in (i + 1)..Len(data) :
             /\ ends_line_records(data[j])
             /\ \A h \in (i + 1)..(j - 1) : ~ends_line_records(data[h])
    ELSE Len(data) + 1

\* The positions of the child lines of the FUNC line at i: the non-empty lines
\* up to ChildEnd(i).
ChildPositions(i) ==
    SelectSeq(Positions, LAMBDA j : i < j /\ j < ChildEnd(i) /\ data[j] # <<>>)

ChildrenParse(i) ==
    \A k \in DOMAIN ChildPositions(i) :
        IsOk(BreakpadLineRecord_parse(data[ChildPositions(i)[k]]))

\* The lines of the function of the FUNC line at i, all of whose child lines
\* parse: the line records with size > 0, each with its file resolved.
ExpectedLines(i) ==
    LET kept == SelectSeq(ChildPositions(i),
                          LAMBDA j : BreakpadLineRecord_parse(data[j]).v.size > 0)
    IN  [k \in DOMAIN kept |->
            LET line == BreakpadLineRecord_parse(data[kept[k]]).v
            IN  [address |-> line.address,
                 size |-> Some(line.size),
                 file |-> FileInfo_from_path(IF line.file_id \in DOMAIN file_map.val
                                             THEN file_map.val[line.file_id]
                                             ELSE <<>>),
                 line |-> line.line]]

\* C3: functions() yields one item for each FUNC line before the first STACK
\* line, in source order; where the FUNC line and all its child lines parse,
\* the item is a Function with the record's address, size and name whose lines
\* are exactly the line records with size > 0 between the FUNC line and the
\* next FUNC, PUBLIC or STACK line, in source order, each with its file
\* resolved through the file map, or the empty path for an id not in the map.
C3_Functions ==
    (file_map # None /\ func_records # None) =>
        /\ Len(items) <= Len(FuncPositions)
        /\ ended => Len(items) = Len(FuncPositions)
        /\ \A k \in DOMAIN items :
               LET i == FuncPositions[k]
                   func == BreakpadFuncRecord_parse(data[i])
               IN  (IsOk(func) /\ ChildrenParse(i)) =>
                       items[k] = Ok([address |-> func.v.address,
                                      size |-> func.v.size,
                                      name |-> Name_new(func.v.name),
                                      compilation_dir |-> <<>>,
                                      lines |-> ExpectedLines(i),
                                      inlinees |-> <<>>,
                                      inline |-> FALSE])

\* functions() has yielded the function of "FUNC 10 6 0 f" with the one line
\* of its two line records that has a size, in file "a.c" of the FILE record.
C3_Witness ==
    /\ data = <<FileLine, FuncLine, EmptyRangeLine, LineLine>>
    /\ file_map # None /\ func_records # None /\ ended
    /\ Len(items) = 1 /\ IsOk(items[1])
    /\ items[1].v.address = 16 /\ items[1].v.size = 6
    /\ items[1].v.name = Name_new(<<"f">>)
    /\ items[1].v.lines = <<[address |-> 16, size |-> Some(4),
                             file |-> FileInfo_from_path(<<"a", ".", "c">>),
                             line |-> 7]>>

\* The items of two iterators agree: those both have yielded are equal, and
\* one that has ended has yielded no fewer than the other.
SameResults(a, b) ==
    LET n == Min(Len(a.items), Len(b.items))
    IN  /\ SubSeq(a.items, 1, n) = SubSeq(b.items, 1, n)
        /\ a.ended => Len(b.items) <= Len(a.items)
        /\ b.ended => Len(a.items) <= Len(b.items)

\* C4: an iterator obtained from F.lines() after the first one yields the
\* items the first one yielded, however far the first one was consumed.
C4_LinesRepeatable ==
    first # None => SameResults(first.val, [items |-> items, ended |-> ended])

\* The first iterator was left after one of its two items, and a later
\* iterator has yielded both and ended.
C4_Witness ==
    /\ first # None
    /\ Len(first.val.items) = 1 /\ ~first.val.ended
    /\ Len(items) = 2 /\ ended

\* The lines the iterator obtained from F.lines() has read so far.
Consumed ==
    SubSeq(record.val.v.lines, 1, Len(record.val.v.lines) - Len(line_records.val.lines))

\* A line that LineRecords is to yield an item for: it is not empty, does
\* not end the line records, and is not a record of an empty range.
IsYielded(line) ==
    /\ line # <<>>
    /\ ~ends_line_records(line)
    /\ LET parsed == BreakpadLineRecord_parse(line)
       IN  IsOk(parsed) => parsed.v.size > 0

\* C5: LineRecords never yields a parsed record with size 0; its items are
\* those of the lines it has read in order, without the empty lines and the
\* records of size 0.
C5_NoEmptyRanges ==
    line_records # None =>
        /\ \A k \in DOMAIN items : IsOk(items[k]) => items[k].v.size > 0
        /\ LET yielded == SelectSeq(Consumed, IsYielded)
           IN  items = [k \in DOMAIN yielded |-> BreakpadLineRecord_parse(yielded[k])]

\* The iterator has read a record of an empty range and an empty line, and
\* has yielded the record that follows them.
C5_Witness ==
    /\ line_records # None
    /\ Consumed = <<EmptyRangeLine, <<>>, LineLine>>
    /\ items = <<Ok([address |-> 16, size |-> 4, line |-> 7, file_id |-> 2])>>

-----------------------------------------------------------------------------
(* The arithmetic of the evaluator *)

\* BinOp
BinOps == {"Add", "Sub", "Mul", "Div", "Mod", "Align"}

\* Values of A at both ends of its range and around a byte boundary.
Operands == {0, 1, 2, 255, 256, Modulus - 2, Modulus - 1}

\* The operations given to evaluate: every operator on every pair of operands,
\* and on a second operand that is itself an operation of value 0.
ArithPool ==
    {Op(Value(a), Value(b), op) : a \in Operands, b \in Operands, op \in BinOps}
    \cup {Op(Value(a), Op(Value(1), Value(1), "Sub"), op) : a \in {0, 2}, op \in BinOps}

\* Evaluator::new(endian) in a build with or without overflow checks
ArithInit ==
    /\ memory = None
    /\ registers = EmptyMap
    /\ endian \in {"Big", "Little"}
    /\ register_cache = EmptyMap
    /\ cfi_rules = EmptyMap
    /\ overflow_checks \in BOOLEAN
    /\ call = [op |-> "new"]
    /\ ret = Ok(0)
    /\ pre = [memory |-> None, registers |-> EmptyMap, register_cache |-> EmptyMap,
              cfi_rules |-> EmptyMap, returned |-> EmptyMap]
    /\ returned = EmptyMap
    /\ calls = 0
    /\ NoFile

\* Evaluator::evaluate of an operation
EvaluateOp ==
    \E expr \in ArithPool :
        /\ CanCall /\ calls < MaxCalls
        /\ call' = [op |-> "evaluate", expr |-> expr]
        /\ ret' = evaluate_inner(expr, registers, memory, endian, overflow_checks)
        /\ pre' = Snapshot
        /\ calls' = calls + 1
        /\ Config
        /\ UNCHANGED <<registers, register_cache, cfi_rules, returned>>

ArithNext == EvaluateOp

\* An evaluator asked for the value of operations.
SpecArith == ArithInit /\ [][ArithNext]_vars

\* The last call evaluated an operation on two operands that have values.
Operated ==
    /\ call.op = "evaluate" /\ call.expr.t = "Op"
    /\ IsOk(evaluate_inner(call.expr.e1, registers, memory, endian, overflow_checks))
    /\ IsOk(evaluate_inner(call.expr.e2, registers, memory, endian, overflow_checks))

\* The values of the operands of that operation.
Left == evaluate_inner(call.expr.e1, registers, memory, endian, overflow_checks).v

Right == evaluate_inner(call.expr.e2, registers, memory, endian, overflow_checks).v

\* a * b modulo 2^w, by the bytes of b
WrappedProduct(a, b) ==
    (a * (b % 256) + ((a * (b \div 256)) % Modulus) * 256) % Modulus

\* C11: Add, Sub and Mul return a+b, a-b and a*b modulo 2^w for all operands;
\* no overflow or underflow fails or traps.
C11_Wrapping ==
    (Operated /\ call.expr.op \in {"Add", "Sub", "Mul"}) =>
        ret = Ok(CASE call.expr.op = "Add" -> (Left + Right) % Modulus
                   [] call.expr.op = "Sub" -> (Left - Right + Modulus) % Modulus
                   [] call.expr.op = "Mul" -> WrappedProduct(Left, Right))

\* C12: Div, Mod and Align on a second operand of value 0 return an evaluation
\* error, and leave the evaluator as it was.
C12_ZeroDivisorFails ==
    (Operated /\ call.expr.op \in {"Div", "Mod", "Align"} /\ Right = 0) =>
        /\ IsErr(ret)
        /\ registers = pre.registers
        /\ register_cache = pre.register_cache
        /\ cfi_rules = pre.cfi_rules

-----------------------------------------------------------------------------
(* The text of registers and expressions *)

\* <A as Display>::fmt: an integer is written in decimal
RECURSIVE fmt_decimal(_)
fmt_decimal(n) ==
    IF n < 10 THEN <<<<"0", "1", "2", "3", "4", "5", "6", "7", "8", "9">>[n + 1]>>
    ELSE fmt_decimal(n \div 10) \o fmt_decimal(n % 10)

\* <Register as Display>::fmt
Register_to_string(r) ==
    CASE r.tag = "Cfa" -> <<".", "c", "f", "a">>
      [] r.tag = "Var" -> r.name
      [] r.tag = "Const" -> r.name

\* <BinOp as Display>::fmt
BinOp_to_string(op) ==
    CASE op = "Add" -> <<"+">>
      [] op = "Sub" -> <<"-">>
      [] op = "Mul" -> <<"*">>
      [] op = "Div" -> <<"/">>
      [] op = "Mod" -> <<"%">>
      [] op = "Align" -> <<"@">>

\* <Expr<T> as Display>::fmt
RECURSIVE Expr_to_string(_)
Expr_to_string(e) ==
    CASE e.t = "Value" -> fmt_decimal(e.x)
      [] e.t = "Reg" -> Register_to_string(e.r)
      [] e.t = "Op" -> Expr_to_string(e.e1) \o <<" ">> \o Expr_to_string(e.e2)
                       \o <<" ">> \o BinOp_to_string(e.op)
      [] e.t = "Deref" -> Expr_to_string(e.e) \o <<" ", "^">>

\* ParseExprError
ParseExprError == [kind |-> "ParseExprError"]

\* char::is_ascii_alphabetic
is_alphabetic(c) ==
    c \in {"a", "b", "c", "d", "e", "f", "g", "h", "i", "j", "k", "l", "m", "n", "o", "p", "q", "r", "s", "t", "u", "v", "w", "x", "y", "z",
           "A", "B", "C", "D", "E", "F", "G", "H", "I", "J", "K", "L", "M", "N", "O", "P", "Q", "R", "S", "T", "U", "V", "W", "X", "Y", "Z"}

\* <variable> ::= $[a-zA-Z][a-zA-Z0-9]*
is_variable(token) ==
    /\ Len(token) >= 2
    /\ token[1] = "$"
    /\ is_alphabetic(token[2])
    /\ \A i \in 3..Len(token) : is_alphabetic(token[i]) \/ is_digit(token[i], 10)

\* <constant> ::= [a-zA-Z_.][a-zA-Z0-9_.]*
is_constant(token) ==
    /\ Len(token) >= 1
    /\ is_alphabetic(token[1]) \/ token[1] \in {"_", "."}
    /\ \A i \in 2..Len(token) :
           is_alphabetic(token[i]) \/ is_digit(token[i], 10) \/ token[i] \in {"_", "."}

\* <literal> ::= [0-9a-fA-F]+
is_literal(token) ==
    token # <<>> /\ \A i \in DOMAIN token : is_digit(token[i], 16)

\* register, had it known no name for the CFA.
register_without_cfa(token) ==
    IF is_variable(token) THEN Some(Var(token))
    ELSE IF is_constant(token) THEN Some(Const(token))
    ELSE None

\* parsing::register: the register a token names; `.cfa` names Register::Cfa
register(token) ==
    IF token = <<".", "c", "f", "a">> THEN Some(Cfa)
    ELSE IF is_variable(token) THEN Some(Var(token))
    ELSE IF is_constant(token) THEN Some(Const(token))
    ELSE None

\* Option::ok_or
ok_or(option, error) == IF option = None THEN Err(error) ELSE Ok(option.val)

\* parsing::register_complete
register_complete(input) == ok_or(register(input), ParseExprError)

\* A value of u64 as a value of A, if it fits.
fits(n) == IF n = None THEN None ELSE IF n.val >= Modulus THEN None ELSE n

\* The value of a literal: its digits are read in base 16.
literal(token) == fits(from_str_radix(token, 16))

\* <binop> ::= + | - | * | / | % | @
binop(token) ==
    CASE token = <<"+">> -> Some("Add")
      [] token = <<"-">> -> Some("Sub")
      [] token = <<"*">> -> Some("Mul")
      [] token = <<"/">> -> Some("Div")
      [] token = <<"%">> -> Some("Mod")
      [] token = <<"@">> -> Some("Align")
      [] OTHER -> None

\* The stack without its n topmost expressions.
below(stack, n) == SubSeq(stack, 1, Len(stack) - n)

\* The stack of expressions after one more token, or None when the token
\* cannot follow. A token of hex digits is a literal, not a constant.
push_token(stack, token) ==
    IF is_literal(token)
    THEN IF literal(token) = None THEN None
         ELSE Some(Append(stack, Value(literal(token).val)))
    ELSE IF binop(token) # None
    THEN IF Len(stack) < 2 THEN None
         ELSE Some(Append(below(stack, 2),
                          Op(stack[Len(stack) - 1], stack[Len(stack)], binop(token).val)))
    ELSE IF token = <<"^">>
    THEN IF Len(stack) < 1 THEN None
         ELSE Some(Append(below(stack, 1), Deref(stack[Len(stack)])))
    ELSE IF register(token) # None
    THEN Some(Append(stack, Reg(register(token).val)))
    ELSE None

RECURSIVE split_whitespace(_)

\* The first token of a text that does not start with whitespace, and then
\* the tokens of the rest.
split_first(s) ==
    IF find_whitespace(s) = 0 THEN <<s>>
    ELSE <<SubSeq(s, 1, find_whitespace(s) - 1)>>
         \o split_whitespace(SubSeq(s, find_whitespace(s) + 1, Len(s)))

\* The tokens of a text: its maximal runs without whitespace.
split_whitespace(s) ==
    IF trim_start(s) = <<>> THEN <<>> ELSE split_first(trim_start(s))

RECURSIVE parse_tokens(_, _)

\* The tokens that remain are parsed unless the last one could not follow.
parse_rest(tokens, pushed) ==
    IF pushed = None THEN None ELSE parse_tokens(tokens, pushed.val)

\* The stack of expressions after all the tokens, or None.
parse_tokens(tokens, stack) ==
    IF tokens = <<>> THEN Some(stack)
    ELSE parse_rest(Tail(tokens), push_token(stack, Head(tokens)))

\* On a complete parse exactly one expression remains on the stack.
complete(parsed) ==
    IF parsed = None THEN Err(ParseExprError)
    ELSE IF Len(parsed.val) # 1 THEN Err(ParseExprError)
    ELSE Ok(parsed.val[1])

\* parsing::expr_complete
expr_complete(input) == complete(parse_tokens(split_whitespace(input), <<>>))

\* <Register as FromStr>::from_str
Register_from_str(input) == register_complete(input)

\* <Expr<T> as FromStr>::from_str
Expr_from_str(input) == expr_complete(input)

-----------------------------------------------------------------------------
(* Writing a register or an expression and parsing it again *)

\* Values of Expr::Value
TextValues == {0, 9, 10, 255, Modulus - 1}

\* Registers whose names follow the grammar
GrammarRegisters == {Cfa, Var(<<"$", "r", "0">>), Var(<<"$", "r", "A", "d", "d", "3">>), Const(<<".", "r", "a">>), Const(<<"a">>)}

\* Registers as the enum allows them: the name is any String
RegisterPool ==
    GrammarRegisters
        \cup {Const(<<".", "c", "f", "a">>), Const(<<"$", "r", "0">>), Const(<<>>), Var(<<".", "r", "a">>), Var(<<"a">>)}

\* Expressions over registers whose text is no literal
Leaves == {Value(x) : x \in TextValues} \cup {Reg(r) : r \in GrammarRegisters \ {Const(<<"a">>)}}

ExprPool ==
    Leaves
        \cup {Deref(e) : e \in Leaves}
        \cup {Op(e1, Reg(Cfa), op) : e1 \in Leaves, op \in {"Add", "Align"}}
        \cup {Op(Value(9), Deref(e), "Mod") : e \in Leaves}
        \cup {Op(Op(Value(0), e, "Sub"), Reg(Var(<<"$", "r", "0">>)), "Mul") : e \in Leaves}

\* No evaluator and no symbol file take part.
TextInit == NoEvaluator /\ NoFile

\* e.to_string().parse::<Expr<A>>()
ExprRoundTrip ==
    \E e \in ExprPool :
        /\ CanCall /\ calls < MaxCalls
        /\ call' = [op |-> "Expr::from_str", expr |-> e, input |-> Expr_to_string(e)]
        /\ ret' = Expr_from_str(Expr_to_string(e))
        /\ calls' = calls + 1
        /\ Config
        /\ UNCHANGED <<registers, register_cache, cfi_rules, returned, pre>>

\* r.to_string().parse::<Register>()
RegisterRoundTrip ==
    \E r \in RegisterPool :
        /\ CanCall /\ calls < MaxCalls
        /\ call' = [op |-> "Register::from_str", register |-> r,
                    input |-> Register_to_string(r)]
        /\ ret' = Register_from_str(Register_to_string(r))
        /\ calls' = calls + 1
        /\ Config
        /\ UNCHANGED <<registers, register_cache, cfi_rules, returned, pre>>

TextNext == ExprRoundTrip \/ RegisterRoundTrip

SpecText == TextInit /\ [][TextNext]_vars

\* C13: for every expression e whose literals fit the value type,
\* Expr::from_str(e.to_string()) returns Ok(e).
C13_ExprRoundTrip ==
    call.op = "Expr::from_str" => ret = Ok(call.expr)

\* C14, as stated: for every Register r, Register::from_str(r.to_string())
\* returns Ok(r).
C14_AsStated ==
    call.op = "Register::from_str" => ret = Ok(call.register)

\* The name of a register follows the grammar: `.cfa` is the name of Cfa alone.
WellNamed(r) ==
    CASE r.tag = "Cfa" -> TRUE
      [] r.tag = "Var" -> is_variable(r.name)
      [] r.tag = "Const" -> is_constant(r.name) /\ r.name # <<".", "c", "f", "a">>

\* C14: for every Register r that is Cfa, Var(name) with name a <variable> or
\* Const(name) with name a <constant> other than `.cfa`,
\* Register::from_str(r.to_string()) returns Ok(r); `.cfa` parses to Cfa.
C14_RegisterRoundTrip ==
    /\ call.op = "Register::from_str" /\ WellNamed(call.register)
           => ret = Ok(call.register)
    /\ call.op = "Register::from_str" /\ call.input = <<".", "c", "f", "a">> => ret = Ok(Cfa)

\* Cfa was written as `.cfa` and parsed to Cfa again.
C14_Witness ==
    /\ call.op = "Register::from_str" /\ call.register = Cfa
    /\ call.input = <<".", "c", "f", "a">> /\ ret = Ok(Cfa)

-----------------------------------------------------------------------------
(* The header and the records of one line *)

\* num_hex_32, num_hex_16: at most n significant digits fit the type
hex_fits(src, n) ==
    Len(trim_zeros(IF Len(src) > 1 /\ Head(src) = "+" THEN Tail(src) ELSE src)) <= n

num_hex_32(input) ==
    IF hex_fits(input, 8) THEN map_err(from_str_radix(input, 16), "NumHex")
    ELSE Err(Parse("NumHex"))

num_hex_16(input) ==
    IF hex_fits(input, 4) THEN map_err(from_str_radix(input, 16), "NumHex")
    ELSE Err(Parse("NumHex"))

\* os
os(input) ==
    IF input \in {<<"L", "i", "n", "u", "x">>, <<"m", "a", "c">>, <<"w", "i", "n", "d", "o", "w", "s">>} THEN Ok(input) ELSE Err(Parse("Os"))

\* arch
arch(input) ==
    IF input \in {<<"x", "8", "6">>, <<"x", "8", "6", "_", "6", "4">>, <<"p", "p", "c">>, <<"p", "p", "c", "_", "6", "4">>, <<"u", "n", "k", "n", "o", "w", "n">>}
    THEN Ok(input) ELSE Err(Parse("Arch"))

\* module_id
module_id(input) ==
    IF (\A i \in DOMAIN input : is_digit(input[i], 16)) /\ Len(input) >= 32 /\ Len(input) <= 40
    THEN Ok(input) ELSE Err(Parse("Id"))

\* info_id
info_id(input) ==
    IF \A i \in DOMAIN input : is_digit(input[i], 16) THEN Ok(input) ELSE Err(Parse("Id"))

\* stack_win_record_type
stack_win_record_type(input) ==
    CASE input = <<"0">> -> Ok("Fpo")
      [] input = <<"4">> -> Ok("FrameData")
      [] OTHER -> Err(Parse("StackWinRecordType"))

\* The position of the first line feed of s, or 0.
find_newline(s) ==
    IF \E i \in DOMAIN s : s[i] = "\n"
    THEN CHOOSE i \in DOMAIN s : s[i] = "\n" /\ \A j \in 1..(i - 1) : s[j] # "\n"
    ELSE 0

\* A line without the carriage return that ends it.
strip_cr(line) ==
    IF line # <<>> /\ line[Len(line)] = "\r" THEN SubSeq(line, 1, Len(line) - 1) ELSE line

\* str::lines().next()
first_line(input) ==
    IF input = <<>> THEN None
    ELSE IF find_newline(input) = 0 THEN Some(strip_cr(input))
    ELSE Some(strip_cr(SubSeq(input, 1, find_newline(input) - 1)))

\* BreakpadModuleRecord::parse, from the splitn(4, ..) of the line after its tag
module_record(parts, os_, arch_, id) ==
    IF ~IsOk(os_) THEN os_
    ELSE IF Len(parts) < 2 THEN Err(Parse("ModuleRecord"))
    ELSE IF ~IsOk(arch_) THEN arch_
    ELSE IF Len(parts) < 3 THEN Err(Parse("ModuleRecord"))
    ELSE IF ~IsOk(id) THEN id
    ELSE Ok([os |-> os_.v, arch |-> arch_.v, id |-> id.v, name |-> name_or_unknown(parts, 4)])

module_record_parts(parts) ==
    module_record(parts, os(parts[1]), arch(parts[2]), module_id(parts[3]))

\* BreakpadModuleRecord::parse, from what strip_prefix("MODULE") returned
module_record_stripped(stripped) ==
    IF stripped = None THEN Err(Parse("ModuleRecord"))
    ELSE module_record_parts(splitn(4, trim_start(stripped.val)))

\* BreakpadModuleRecord::parse, from the first line of its input
module_record_line(line) ==
    IF line = None THEN Err(Parse("ModuleRecord"))
    ELSE module_record_stripped(strip_prefix(line.val, <<"M", "O", "D", "U", "L", "E">>))

\* BreakpadModuleRecord::parse
BreakpadModuleRecord_parse(bytes) ==
    IF ~from_utf8_ok(bytes) THEN Err(BadEncoding)
    ELSE module_record_line(first_line(bytes))

\* The CODE_ID arm of BreakpadInfoRecord::parse
info_code_id(parts, code_id) ==
    IF ~IsOk(code_id) THEN code_id
    ELSE Ok([variant |-> "CodeId", code_id |-> code_id.v,
             code_file |-> IF Len(parts) >= 2 THEN parts[2] ELSE <<>>])

\* The other arm of BreakpadInfoRecord::parse
info_other(parts, scope) ==
    IF ~IsOk(scope) THEN scope
    ELSE IF Len(parts) < 2 THEN Err(Parse("InfoRecord"))
    ELSE Ok([variant |-> "Other", scope |-> scope.v, info |-> parts[2]])

info_code_id_parts(parts) == info_code_id(parts, info_id(parts[1]))

info_other_parts(parts) == info_other(parts, info_id(parts[1]))

\* BreakpadInfoRecord::parse, from the line after its tag and what
\* strip_prefix("CODE_ID") returned of it
info_record_scope(current, rest) ==
    IF rest # None THEN info_code_id_parts(splitn(2, trim_start(rest.val)))
    ELSE info_other_parts(splitn(2, current))

\* BreakpadInfoRecord::parse, from what strip_prefix("INFO") returned
info_record_stripped(stripped) ==
    IF stripped = None THEN Err(Parse("InfoRecord"))
    ELSE info_record_scope(trim_start(stripped.val),
                           strip_prefix(trim_start(stripped.val), <<"C", "O", "D", "E", "_", "I", "D">>))

\* BreakpadInfoRecord::parse
BreakpadInfoRecord_parse(line) ==
    IF ~from_utf8_ok(line) THEN Err(BadEncoding)
    ELSE info_record_stripped(strip_prefix(line, <<"I", "N", "F", "O">>))

\* BreakpadPublicRecord::parse, from the splitn(3, ..) of the line after its
\* tag and its flag
public_record(multiple, parts, address, parameter_size) ==
    IF ~IsOk(address) THEN address
    ELSE IF Len(parts) < 2 THEN Err(Parse("PublicRecord"))
    ELSE IF ~IsOk(parameter_size) THEN parameter_size
    ELSE Ok([multiple |-> multiple,
             address |-> address.v,
             parameter_size |-> parameter_size.v,
             name |-> name_or_unknown(parts, 3)])

public_record_parts(multiple, parts) ==
    public_record(multiple, parts, num_hex_64(parts[1]), num_hex_64(parts[2]))

\* BreakpadPublicRecord::parse, from the line after its tag and what
\* strip_prefix("m") returned of it
public_record_flag(current, rest) ==
    IF rest # None
    THEN public_record_parts(TRUE, splitn(3, trim_start(rest.val)))
    ELSE public_record_parts(FALSE, splitn(3, current))

\* BreakpadPublicRecord::parse, from what strip_prefix("PUBLIC") returned
public_record_stripped(stripped) ==
    IF stripped = None THEN Err(Parse("PublicRecord"))
    ELSE public_record_flag(trim_start(stripped.val),
                            strip_prefix(trim_start(stripped.val), <<"m">>))

\* BreakpadPublicRecord::parse
BreakpadPublicRecord_parse(line) ==
    IF ~from_utf8_ok(line) THEN Err(BadEncoding)
    ELSE public_record_stripped(strip_prefix(line, <<"P", "U", "B", "L", "I", "C">>))

\* The parser of the i-th of the first nine fields of a STACK WIN record
stack_win_field(i, token) ==
    CASE i = 1 -> stack_win_record_type(token)
      [] i \in {2, 3, 6, 8, 9} -> num_hex_32(token)
      [] i \in {4, 5, 7} -> num_hex_16(token)

RECURSIVE stack_win_error(_, _)
\* BreakpadStackWinRecord::parse reads the parts in order: the first part that
\* is missing, or that its parser rejects, is the error. None: there is none
\* among the parts from the i-th on.
stack_win_error(parts, i) ==
    IF i > 11 THEN None
    ELSE IF Len(parts) < i THEN Some(Err(Parse("StackWinRecord")))
    ELSE IF i <= 9 /\ ~IsOk(stack_win_field(i, parts[i]))
    THEN Some(stack_win_field(i, parts[i]))
    ELSE stack_win_error(parts, i + 1)

\* has_program_string, had the flag been ignored.
no_program_string(parts) == FALSE

\* let has_program_string = current != "0"
has_program_string(parts) == parts[10] # <<"0">>

\* The record of eleven parts that have no error
stack_win_record(parts) ==
    Ok([ty |-> stack_win_field(1, parts[1]).v,
        code_start |-> stack_win_field(2, parts[2]).v,
        code_size |-> stack_win_field(3, parts[3]).v,
        prolog_size |-> stack_win_field(4, parts[4]).v,
        epilog_size |-> stack_win_field(5, parts[5]).v,
        params_size |-> stack_win_field(6, parts[6]).v,
        saved_regs_size |-> stack_win_field(7, parts[7]).v,
        locals_size |-> stack_win_field(8, parts[8]).v,
        max_stack_size |-> stack_win_field(9, parts[9]).v,
        uses_base_pointer |->
            IF has_program_string(parts) THEN FALSE ELSE parts[11] # <<"0">>,
        program_string |->
            IF has_program_string(parts) THEN Some(parts[11]) ELSE None])

\* BreakpadStackWinRecord::parse, from the splitn(11, ..) of the line after its
\* tag
stack_win_record_parts(parts, error) ==
    IF error # None THEN error.val ELSE stack_win_record(parts)

\* BreakpadStackWinRecord::parse, from what strip_prefix("STACK WIN") returned
stack_win_record_stripped(stripped) ==
    IF stripped = None THEN Err(Parse("StackWinRecord"))
    ELSE stack_win_record_parts(splitn(11, trim_start(stripped.val)),
                                stack_win_error(splitn(11, trim_start(stripped.val)), 1))

\* BreakpadStackWinRecord::parse
BreakpadStackWinRecord_parse(line) ==
    IF ~from_utf8_ok(line) THEN Err(BadEncoding)
    ELSE stack_win_record_stripped(strip_prefix(line, <<"S", "T", "A", "C", "K", " ", "W", "I", "N">>))

BREAKPAD_HEADER_CAP == 320

\* The header, had every error of the window been an error of the buffer.
header_strict(buffer, window) ==
    IF window = None THEN Ok(SubSeq(buffer, 1, BREAKPAD_HEADER_CAP))
    ELSE Err(BadEncoding)

\* The header of a buffer longer than the cap, from what str::from_utf8
\* returned of its first BREAKPAD_HEADER_CAP bytes
header_capped(buffer, window) ==
    IF window = None THEN Ok(SubSeq(buffer, 1, BREAKPAD_HEADER_CAP))
    ELSE IF window.val.error_len = None THEN Ok(SubSeq(buffer, 1, window.val.valid_up_to))
    ELSE Err(BadEncoding)

\* The header that BreakpadObject::parse reads
header(buffer) ==
    IF Len(buffer) > BREAKPAD_HEADER_CAP
    THEN header_capped(buffer, from_utf8(SubSeq(buffer, 1, BREAKPAD_HEADER_CAP)))
    ELSE Ok(buffer)

\* BreakpadObject::parse, from the module record; id_ok and arch_ok tell
\* whether DebugId::from_str and Arch::from_str accept its id and its arch
object_of(buffer, module, id_ok, arch_ok) ==
    IF ~IsOk(module) THEN module
    ELSE IF ~id_ok THEN Err(Parse("Id"))
    ELSE IF ~arch_ok THEN Err(Parse("Arch"))
    ELSE Ok([id |-> module.v.id, arch |-> module.v.arch, module |-> module.v, data |-> buffer])

\* BreakpadObject::parse, from its header
object_with_header(buffer, h, id_ok, arch_ok) ==
    IF ~IsOk(h) THEN h
    ELSE object_of(buffer, BreakpadModuleRecord_parse(h.v), id_ok, arch_ok)

\* BreakpadObject::parse
BreakpadObject_parse(buffer, id_ok, arch_ok) ==
    object_with_header(buffer, header(buffer), id_ok, arch_ok)

\* BreakpadErrorKind::InvalidMagic
InvalidMagic == [kind |-> "InvalidMagic"]

-----------------------------------------------------------------------------
(* Parsing a buffer and decoding single lines *)

RECURSIVE joined(_)
\* The tokens, each after one space.
joined(tokens) ==
    IF tokens = <<>> THEN <<>> ELSE <<" ">> \o Head(tokens) \o joined(Tail(tokens))

\* A line: its tag, its tokens and, when there is one, its trailing field, the
\* fields one space apart.
Line(tag, tokens, name) ==
    tag \o joined(tokens) \o (IF name = None THEN <<>> ELSE <<" ">> \o name.val)

\* Trailing fields: absent, or present with or without whitespace in it
Names ==
    {None, Some(<<"f">>), Some(<<"a", " ", "b">>), Some(<<"a", "\t", "b", " ", "c">>),
     Some(<<" ", "a", " ", " ", "b">>), Some(<<>>)}

Id33 == [i \in 1..33 |-> IF i % 2 = 0 THEN "4" ELSE "D"]

Id32 == [i \in 1..32 |-> IF i % 2 = 0 THEN "b" ELSE "9"]

\* The required tokens of lines that decode
ModuleTokens == {<<<<"L", "i", "n", "u", "x">>, <<"x", "8", "6">>, Id33>>, <<<<"m", "a", "c">>, <<"x", "8", "6", "_", "6", "4">>, Id32>>}

FileTokens == {<<<<"2">>>>, <<<<"1", "2">>>>}

PublicTokens == {<<<<"2", "0">>, <<"0">>>>, <<<<"m">>, <<"2", "0">>, <<"0">>>>}

FuncTokens == {<<<<"1", "0">>, <<"6">>, <<"0">>>>, <<<<"m">>, <<"1", "0">>, <<"6">>, <<"0">>>>}

InfoTokens == {<<<<"C", "O", "D", "E", "_", "I", "D">>, <<"a", "b", "c">>>>, <<<<"a", "b", "c">>>>}

\* and of lines that do not, or not as they look
BadModuleTokens == {<<<<"L", "i", "n", "u", "x">>, <<"x", "8", "6">>, <<"z", "z">>>>, <<<<"L", "i", "n", "u", "x">>>>, <<<<"l", "i", "n", "u", "x">>, <<"x", "8", "6">>, Id33>>}

BadFileTokens == {<<<<"z", "z">>>>}

BadPublicTokens == {<<<<"m", "2", "0">>, <<"0">>>>, <<<<"m">>, <<"z", "z">>, <<"0">>>>, <<<<"2", "0">>>>}

BadFuncTokens == {<<<<"m", "1", "0">>, <<"6">>, <<"0">>>>, <<<<"1", "0">>, <<"6">>>>, <<<<"1", "0">>, <<"z", "z">>, <<"0">>>>}

BadInfoTokens == {<<<<"C", "O", "D", "E", "_", "I", "D">>, <<"x", "y", "z">>>>, <<<<"C", "O", "D", "E", "_", "I", "D">>>>}

\* The ten tokens of a STACK WIN line before its last field
StackWinTokens ==
    {<<ty, <<"3", "7", "1", "a">>, <<"1", "3">>, <<"0">>, <<"0">>, <<"4">>, <<"0">>, <<"8">>, <<"0">>, flag>> :
        ty \in {<<"4">>, <<"0">>}, flag \in {<<"0">>, <<"1">>}}

\* The last field of a STACK WIN line
StackWinLast ==
    {Some(<<"0">>), Some(<<"1">>), Some(<<"$", "T", "0", " ", ".", "r", "a", "S", "e", "a", "r", "c", "h", " ", "=">>), Some(<<>>)}

\* STACK WIN lines that lack fields, or hold a field that is not valid
ShortStackWinTokens ==
    {SubSeq(t, 1, n) : t \in StackWinTokens, n \in {0, 1, 9, 10}}
        \cup {<<<<"9">>>>, <<<<"4">>, <<"z", "z">>>>, <<<<"4">>, <<"3", "7", "1", "a">>, <<"1", "3">>, <<"1", "0", "0", "0", "0">>>>}

\* n bytes of a name
Pad(n) == [i \in 1..n |-> "x"]

\* How a buffer starts
BufferHeads ==
    {<<"M", "O", "D", "U", "L", "E", " ", "L", "i", "n", "u", "x", " ", "x", "8", "6", " ">> \o Id33 \o <<" ">>,
     <<"M", "O", "D", "U", "L", "E", " ", "m", "a", "c", " ", "x", "8", "6", "_", "6", "4", " ">> \o Id32 \o <<" ", "l", "\n">> \o <<"F", "I", "L", "E", " ", "1", " ">>,
     <<"M", "O", "D", "U", "L", "E", " ", "L", "i", "n", "u", "x", " ", "x", "8", "6", " ", "z", "z", " ">>,
     <<"M", "O", "D", "U", "L", "E", "\t">> \o <<"L", "i", "n", "u", "x", " ", "x", "8", "6", " ">> \o Id33 \o <<" ">>,
     <<"F", "I", "L", "E", " ", "1", " ">>}

\* and how it goes on after it has been filled up to some length
BufferTails ==
    {<<>>,
     <<LeadByte, ContinuationByte>>,
     <<LeadByte, ContinuationByte, "\n">> \o <<"F", "I", "L", "E", " ", "2", " ", "b">> \o <<"\n">>,
     <<InvalidByte>>,
     <<LeadByte, "y">>,
     <<"\n">> \o <<"F", "U", "N", "C", " ", "1", "0", " ", "6", " ", "0", " ", "f">> \o <<"\n">>}

\* The lengths up to which a buffer is filled: not at all, and to around the cap
FillTo == {0, BREAKPAD_HEADER_CAP - 2, BREAKPAD_HEADER_CAP - 1, BREAKPAD_HEADER_CAP}

Buffer(head, n, tail) ==
    head \o (IF n > Len(head) THEN Pad(n - Len(head)) ELSE <<>>) \o tail

ObjectBuffers ==
    {Buffer(head, n, tail) : head \in BufferHeads, n \in FillTo, tail \in BufferTails}
        \cup {<<>>}

RecordInit == NoEvaluator /\ NoFile

\* The one call of a behaviour: it touches neither the evaluator nor a symbol
\* file.
Called ==
    /\ calls = 0
    /\ calls' = calls + 1
    /\ Config
    /\ UNCHANGED <<registers, register_cache, cfi_rules, returned, pre>>

\* BreakpadObject::parse(data)
ObjectParse ==
    \E buffer \in ObjectBuffers, id_ok \in BOOLEAN, arch_ok \in BOOLEAN :
        /\ Called
        /\ call' = [op |-> "BreakpadObject::parse", data |-> buffer,
                    id_ok |-> id_ok, arch_ok |-> arch_ok]
        /\ ret' = BreakpadObject_parse(buffer, id_ok, arch_ok)

\* BreakpadModuleRecord::parse(line)
ModuleParse ==
    \E tokens \in ModuleTokens \cup BadModuleTokens, name \in Names :
        /\ Called
        /\ call' = [op |-> "BreakpadModuleRecord::parse", tokens |-> tokens,
                    name |-> name, input |-> Line(<<"M", "O", "D", "U", "L", "E">>, tokens, name)]
        /\ ret' = BreakpadModuleRecord_parse(Line(<<"M", "O", "D", "U", "L", "E">>, tokens, name))

\* BreakpadInfoRecord::parse(line)
InfoParse ==
    \E tokens \in InfoTokens \cup BadInfoTokens, name \in Names :
        /\ Called
        /\ call' = [op |-> "BreakpadInfoRecord::parse", tokens |-> tokens,
                    name |-> name, input |-> Line(<<"I", "N", "F", "O">>, tokens, name)]
        /\ ret' = BreakpadInfoRecord_parse(Line(<<"I", "N", "F", "O">>, tokens, name))

\* BreakpadFileRecord::parse(line)
FileParse ==
    \E tokens \in FileTokens \cup BadFileTokens, name \in Names :
        /\ Called
        /\ call' = [op |-> "BreakpadFileRecord::parse", tokens |-> tokens,
                    name |-> name, input |-> Line(<<"F", "I", "L", "E">>, tokens, name)]
        /\ ret' = BreakpadFileRecord_parse(Line(<<"F", "I", "L", "E">>, tokens, name))

\* BreakpadPublicRecord::parse(line)
PublicParse ==
    \E tokens \in PublicTokens \cup BadPublicTokens, name \in Names :
        /\ Called
        /\ call' = [op |-> "BreakpadPublicRecord::parse", tokens |-> tokens,
                    name |-> name, input |-> Line(<<"P", "U", "B", "L", "I", "C">>, tokens, name)]
        /\ ret' = BreakpadPublicRecord_parse(Line(<<"P", "U", "B", "L", "I", "C">>, tokens, name))

\* BreakpadFuncRecord::parse(line)
FuncParse ==
    \E tokens \in FuncTokens \cup BadFuncTokens, name \in Names :
        /\ Called
        /\ call' = [op |-> "BreakpadFuncRecord::parse", tokens |-> tokens,
                    name |-> name, input |-> Line(<<"F", "U", "N", "C">>, tokens, name)]
        /\ ret' = BreakpadFuncRecord_parse(Line(<<"F", "U", "N", "C">>, tokens, name))

\* The fields of the STACK WIN lines that are decoded: all eleven, or fewer
StackWinLines ==
    {<<tokens, last>> : tokens \in StackWinTokens, last \in StackWinLast}
        \cup {<<tokens, None>> : tokens \in ShortStackWinTokens}

\* BreakpadStackWinRecord::parse(line)
StackWinParse ==
    \E fields \in StackWinLines :
        /\ Called
        /\ call' = [op |-> "BreakpadStackWinRecord::parse", tokens |-> fields[1],
                    name |-> fields[2],
                    input |-> Line(<<"S", "T", "A", "C", "K", " ", "W", "I", "N">>, fields[1], fields[2])]
        /\ ret' = BreakpadStackWinRecord_parse(Line(<<"S", "T", "A", "C", "K", " ", "W", "I", "N">>, fields[1], fields[2]))

RecordNext ==
    \/ ObjectParse
    \/ ModuleParse
    \/ InfoParse
    \/ FileParse
    \/ PublicParse
    \/ FuncParse
    \/ StackWinParse

SpecRecord == RecordInit /\ [][RecordNext]_vars

\* C15: BreakpadObject::parse of a buffer whose first line does not begin with
\* MODULE fails with InvalidMagic.
C15_InvalidMagic ==
    call.op = "BreakpadObject::parse" /\ ~starts_with(call.data, <<"M", "O", "D", "U", "L", "E">>)
        => ret = Err(InvalidMagic)

\* The buffer is longer than the cap.
Capped == call.op = "BreakpadObject::parse" /\ Len(call.data) > BREAKPAD_HEADER_CAP

\* The first n bytes of the buffer
Window(n) == SubSeq(call.data, 1, n)

\* The window of the first BREAKPAD_HEADER_CAP bytes ends within a code point
\* and is valid before it.
SplitWindow ==
    /\ call.data[BREAKPAD_HEADER_CAP] = LeadByte
    /\ from_utf8(Window(BREAKPAD_HEADER_CAP - 1)) = None

\* The window holds a sequence of bytes that no code point has.
InvalidWindow ==
    \E i \in 1..BREAKPAD_HEADER_CAP :
        \/ call.data[i] = InvalidByte
        \/ call.data[i] = ContinuationByte /\ (i = 1 \/ call.data[i - 1] # LeadByte)
        \/ call.data[i] = LeadByte /\ i < BREAKPAD_HEADER_CAP
               /\ call.data[i + 1] # ContinuationByte

\* What BreakpadObject::parse returns when its header is the first n bytes
ParsedFrom(n) ==
    object_of(call.data, BreakpadModuleRecord_parse(Window(n)), call.id_ok, call.arch_ok)

NamedRecords ==
    {"BreakpadModuleRecord::parse", "BreakpadFileRecord::parse",
     "BreakpadPublicRecord::parse", "BreakpadFuncRecord::parse"}

\* The line has all the tokens that its record requires, and they are valid.
WellFormed ==
    call.tokens \in ModuleTokens \cup FileTokens \cup PublicTokens \cup FuncTokens

\* C17: a MODULE, FILE, PUBLIC or FUNC line that ends after its last required
\* token decodes to a record whose name is "<unknown>"; when the trailing field
\* is present, the name is the whole remainder of the line, whitespace included.
C17_Names ==
    call.op \in NamedRecords /\ WellFormed
        => /\ IsOk(ret)
           /\ call.name = None => ret.v.name = UNKNOWN_NAME
           /\ call.name # None => ret.v.name = call.name.val

\* Lines without a name and lines whose name holds whitespace were decoded.
C17_Witness ==
    /\ call.op = "BreakpadPublicRecord::parse" /\ WellFormed /\ IsOk(ret)
    /\ \/ call.name = None /\ ret.v.name = UNKNOWN_NAME
       \/ call.name = Some(<<"a", "\t", "b", " ", "c">>) /\ ret.v.name = call.name.val

\* C18: an INFO CODE_ID line with a code id and no code file decodes to CodeId
\* with code_file "<unknown>".
C18_CodeFile ==
    /\ call.op = "BreakpadInfoRecord::parse"
    /\ call.tokens = <<<<"C", "O", "D", "E", "_", "I", "D">>, <<"a", "b", "c">>>> /\ call.name = None
    => IsOk(ret) /\ ret.v.variant = "CodeId" /\ ret.v.code_file = UNKNOWN_NAME

\* C19: a decoded PUBLIC or FUNC record has multiple = true if and only if the
\* first token after the tag is exactly "m".
C19_MultipleFlag ==
    call.op \in {"BreakpadPublicRecord::parse", "BreakpadFuncRecord::parse"} /\ IsOk(ret)
        => (ret.v.multiple <=> call.tokens # <<>> /\ call.tokens[1] = <<"m">>)

\* The fields of the line after its tag
Fields == Len(call.tokens) + (IF call.name = None THEN 0 ELSE 1)

\* What C20 says of a decoded STACK WIN record
ProgramString ==
    call.op = "BreakpadStackWinRecord::parse" /\ IsOk(ret)
        => /\ Fields = 11
           /\ IF call.tokens[10] # <<"0">>
              THEN ret.v.program_string = Some(call.name.val) /\ ~ret.v.uses_base_pointer
              ELSE /\ ret.v.program_string = None
                   /\ ret.v.uses_base_pointer <=> call.name.val # <<"0">>

\* C20, as stated: a decoded STACK WIN record is as ProgramString says, and a
\* line with fewer than 11 fields after the tag fails with
\* Parse(StackWinRecord).
C20_AsStated ==
    /\ ProgramString
    /\ call.op = "BreakpadStackWinRecord::parse" /\ Fields < 11
           => ret = Err(Parse("StackWinRecord"))

\* There are tokens, and they are the first ones of a line that decodes.
ValidSoFar ==
    /\ call.tokens # <<>>
    /\ \E t \in StackWinTokens : call.tokens = SubSeq(t, 1, Len(call.tokens))

\* C20: a decoded STACK WIN record is as ProgramString says. A line with fewer
\* than 11 fields after the tag fails: with Parse(StackWinRecord) when it has a
\* field and the fields it has are valid, and otherwise with the error of the
\* first field that is not valid, which for a line without fields is the type.
C20_StackWin ==
    /\ ProgramString
    /\ call.op = "BreakpadStackWinRecord::parse" /\ Fields < 11
           => /\ IsErr(ret)
              /\ ValidSoFar => ret = Err(Parse("StackWinRecord"))
              /\ ~ValidSoFar
                     => ret \in {Err(Parse("StackWinRecordType")), Err(Parse("NumHex"))}

\* A line whose 10th token is "1" and whose last field is "0" was decoded: the
\* program string is "0".
C20_Witness ==
    /\ call.op = "BreakpadStackWinRecord::parse" /\ IsOk(ret)
    /\ call.tokens[10] = <<"1">> /\ call.name = Some(<<"0">>)
    /\ ret.v.program_string = Some(<<"0">>) /\ ~ret.v.uses_base_pointer

-----------------------------------------------------------------------------
(* Termination of the evaluator *)

\* C30: evaluate_register and evaluate_all_registers terminate, with a value
\* or an evaluation error, for every rule map and register map, also when the
\* rule of .cfa refers to .cfa and the register map does not bind .cfa.
C30_Terminates ==
    call.op \in {"evaluate_register", "evaluate_all_registers"}
        => ret # StackOverflow

-----------------------------------------------------------------------------
(* Testing a buffer before parsing it *)

\* BreakpadObject::test
BreakpadObject_test(buffer) == starts_with(buffer, <<"M", "O", "D", "U", "L", "E", " ">>)

\* C29: a buffer that BreakpadObject::parse accepts passes BreakpadObject::test:
\* it begins with the seven bytes `MODULE `.
C29_TestNecessary ==
    call.op = "BreakpadObject::parse" /\ IsOk(ret) => BreakpadObject_test(call.data)

-----------------------------------------------------------------------------
(* The STACK CFI records, and decoding what a line may hold *)

\* BreakpadStackCfiDeltaRecord::parse, from the splitn(2, ..) of the line after
\* its tag
cfi_delta_record(parts, address) ==
    IF ~IsOk(address) THEN address
    ELSE IF Len(parts) < 2 THEN Err(Parse("StackCfiDeltaRecord"))
    ELSE Ok([address |-> address.v, rules |-> parts[2]])

cfi_delta_record_parts(parts) == cfi_delta_record(parts, num_hex_64(parts[1]))

\* BreakpadStackCfiDeltaRecord::parse, from what strip_prefix("STACK CFI")
\* returned
cfi_delta_record_stripped(stripped) ==
    IF stripped = None THEN Err(Parse("StackCfiDeltaRecord"))
    ELSE cfi_delta_record_parts(splitn(2, trim_start(stripped.val)))

\* BreakpadStackCfiDeltaRecord::parse
BreakpadStackCfiDeltaRecord_parse(line) ==
    IF ~from_utf8_ok(line) THEN Err(BadEncoding)
    ELSE cfi_delta_record_stripped(strip_prefix(line, <<"S", "T", "A", "C", "K", " ", "C", "F", "I">>))

\* BreakpadStackCfiRecord::parse, from the splitn(3, ..) of the line after its
\* tag
cfi_record(parts, start, size) ==
    IF ~IsOk(start) THEN start
    ELSE IF Len(parts) < 2 THEN Err(Parse("StackCfiInitRecord"))
    ELSE IF ~IsOk(size) THEN size
    ELSE IF Len(parts) < 3 THEN Err(Parse("StackCfiInitRecord"))
    ELSE Ok([start |-> start.v, size |-> size.v, init_rules |-> parts[3],
             deltas |-> Lines_default])

cfi_record_parts(parts) == cfi_record(parts, num_hex_64(parts[1]), num_hex_64(parts[2]))

\* BreakpadStackCfiRecord::parse, from what strip_prefix("STACK CFI INIT")
\* returned
cfi_record_stripped(stripped) ==
    IF stripped = None THEN Err(Parse("StackCfiInitRecord"))
    ELSE cfi_record_parts(splitn(3, trim_start(stripped.val)))

\* BreakpadStackCfiRecord::parse
BreakpadStackCfiRecord_parse(line) ==
    IF ~from_utf8_ok(line) THEN Err(BadEncoding)
    ELSE cfi_record_stripped(strip_prefix(line, <<"S", "T", "A", "C", "K", " ", "C", "F", "I", " ", "I", "N", "I", "T">>))

\* BreakpadStackRecord::Cfi, BreakpadStackRecord::Win
StackCfi(r) == [variant |-> "Cfi", r |-> r]

StackWin(r) == [variant |-> "Win", r |-> r]

\* Result::map
map(result, f(_)) == IF IsOk(result) THEN Ok(f(result.v)) ELSE result

\* BreakpadStackRecord::parse, from what the two decoders return: .or_else(..)
\* and then .map_err(|_| StackRecord)
stack_record(cfi, win) ==
    IF IsOk(cfi) THEN cfi
    ELSE IF IsOk(win) THEN win
    ELSE Err(Parse("StackRecord"))

\* BreakpadStackRecord::parse
BreakpadStackRecord_parse(line) ==
    stack_record(map(BreakpadStackCfiRecord_parse(line), StackCfi),
                 map(BreakpadStackWinRecord_parse(line), StackWin))

\* The decoders of single lines
Decoders ==
    {"BreakpadModuleRecord::parse", "BreakpadInfoRecord::parse",
     "BreakpadFileRecord::parse", "BreakpadPublicRecord::parse",
     "BreakpadFuncRecord::parse", "BreakpadLineRecord::parse",
     "BreakpadStackCfiRecord::parse", "BreakpadStackCfiDeltaRecord::parse",
     "BreakpadStackWinRecord::parse", "BreakpadStackRecord::parse"}

\* What a decoder returns of a line
Decode(decoder, line) ==
    CASE decoder = "BreakpadModuleRecord::parse" -> BreakpadModuleRecord_parse(line)
      [] decoder = "BreakpadInfoRecord::parse" -> BreakpadInfoRecord_parse(line)
      [] decoder = "BreakpadFileRecord::parse" -> BreakpadFileRecord_parse(line)
      [] decoder = "BreakpadPublicRecord::parse" -> BreakpadPublicRecord_parse(line)
      [] decoder = "BreakpadFuncRecord::parse" -> BreakpadFuncRecord_parse(line)
      [] decoder = "BreakpadLineRecord::parse" -> BreakpadLineRecord_parse(line)
      [] decoder = "BreakpadStackCfiRecord::parse" -> BreakpadStackCfiRecord_parse(line)
      [] decoder = "BreakpadStackCfiDeltaRecord::parse" ->
             BreakpadStackCfiDeltaRecord_parse(line)
      [] decoder = "BreakpadStackWinRecord::parse" -> BreakpadStackWinRecord_parse(line)
      [] decoder = "BreakpadStackRecord::parse" -> BreakpadStackRecord_parse(line)

\* The tag of the lines of a decoder, and the tokens of a line that it decodes
Tag(decoder) ==
    CASE decoder = "BreakpadModuleRecord::parse" -> <<<<"M", "O", "D", "U", "L", "E">>>>
      [] decoder = "BreakpadInfoRecord::parse" -> <<<<"I", "N", "F", "O">>>>
      [] decoder = "BreakpadFileRecord::parse" -> <<<<"F", "I", "L", "E">>>>
      [] decoder = "BreakpadPublicRecord::parse" -> <<<<"P", "U", "B", "L", "I", "C">>>>
      [] decoder = "BreakpadFuncRecord::parse" -> <<<<"F", "U", "N", "C">>>>
      [] decoder = "BreakpadLineRecord::parse" -> <<>>
      [] decoder = "BreakpadStackCfiRecord::parse" -> <<<<"S", "T", "A", "C", "K", " ", "C", "F", "I", " ", "I", "N", "I", "T">>>>
      [] decoder = "BreakpadStackCfiDeltaRecord::parse" -> <<<<"S", "T", "A", "C", "K", " ", "C", "F", "I">>>>
      [] decoder = "BreakpadStackWinRecord::parse" -> <<<<"S", "T", "A", "C", "K", " ", "W", "I", "N">>>>
      [] decoder = "BreakpadStackRecord::parse" -> <<<<"S", "T", "A", "C", "K", " ", "W", "I", "N">>>>

Tokens(decoder) ==
    CASE decoder = "BreakpadModuleRecord::parse" -> <<<<"L", "i", "n", "u", "x">>, <<"x", "8", "6">>, Id33, <<"a", " ", "b">>>>
      [] decoder = "BreakpadInfoRecord::parse" -> <<<<"C", "O", "D", "E", "_", "I", "D">>, <<"a", "b", "c">>, <<"a", " ", "b">>>>
      [] decoder = "BreakpadFileRecord::parse" -> <<<<"2">>, <<"a", " ", "b">>>>
      [] decoder = "BreakpadPublicRecord::parse" -> <<<<"m">>, <<"2", "0">>, <<"0">>, <<"a", " ", "b">>>>
      [] decoder = "BreakpadFuncRecord::parse" -> <<<<"1", "0">>, <<"6">>, <<"0">>, <<"a", " ", "b">>>>
      [] decoder = "BreakpadLineRecord::parse" -> <<<<"1", "0">>, <<"4">>, <<"7">>, <<"2">>>>
      [] decoder = "BreakpadStackCfiRecord::parse" -> <<<<"1", "0">>, <<"6">>, <<".", "c", "f", "a", ":", " ", "$", "r", "s", "p", " ", "8", " ", "+">>>>
      [] decoder = "BreakpadStackCfiDeltaRecord::parse" -> <<<<"1", "2">>, <<".", "c", "f", "a", ":", " ", "$", "r", "s", "p", " ", "1", "6", " ", "+">>>>
      [] decoder = "BreakpadStackWinRecord::parse" ->
             <<<<"4">>, <<"3", "7", "1", "a">>, <<"1", "3">>, <<"0">>, <<"0">>, <<"4">>, <<"0">>, <<"8">>, <<"0">>, <<"1">>,
               <<"$", "T", "0", " ", ".", "r", "a", "S", "e", "a", "r", "c", "h", " ", "=">>>>
      [] decoder = "BreakpadStackRecord::parse" ->
             <<<<"0">>, <<"3", "7", "1", "a">>, <<"1", "3">>, <<"0">>, <<"0">>, <<"4">>, <<"0">>, <<"8">>, <<"0">>, <<"0">>,
               <<"1">>>>

\* What separates two tokens of a line
Separators == {<<" ">>, <<" ", " ">>, <<"\t">>, <<" ", "\t", " ">>}

RECURSIVE separated(_, _, _)
\* The fields of a line, the separator `wide` before the field at position at,
\* and one space before each of the others.
separated(fields, at, wide) ==
    IF fields = <<>> THEN <<>>
    ELSE IF Len(fields) = 1 THEN fields[1]
    ELSE separated(SubSeq(fields, 1, Len(fields) - 1), at, wide)
             \o (IF Len(fields) = at THEN wide ELSE <<" ">>) \o fields[Len(fields)]

\* The fields of the lines of a decoder: its tag, when it has one, and tokens
LineFields(decoder) == Tag(decoder) \o Tokens(decoder)

\* Tokens of numbers: digits in either case, signs, prefixes, and digits that
\* fit some widths only
NumTokens ==
    {<<"0">>, <<"1", "0">>, <<"f", "f">>, <<"F", "F">>, <<"f", "F">>, <<"0", "9">>, <<"9", "9">>, <<"f", "f", "f", "f">>, <<"1", "0", "0", "0", "0">>,
     <<"0", "f", "f", "f", "f", "f", "f", "f">>, <<"7", "f", "f", "f", "f", "f", "f", "f">>, <<"+", "1", "0">>, <<"-", "1", "0">>, <<"+">>, <<"-">>, <<"+", "+", "1">>, <<"+", "-", "1">>,
     <<"0", "x", "1", "0">>, <<"x", "1", "0">>, <<"1", "0", "h">>, <<"1", "g">>, <<" ", "1", "0">>, <<"1", "0", " ">>, <<>>,
     <<"9", "9", "9", "9", "9", "9", "9", "9", "9", "9", "9", "9", "9", "9", "9", "9", "9", "9", "9", "9", "9">>, <<"+", "f">>, <<"+", "0">>, <<"-", "0">>}

\* Tokens of more digits than 32 bits hold
WideTokens == {<<"1", "0", "0", "0", "0", "0", "0", "0", "0">>, <<"f", "f", "f", "f", "f", "f", "f", "f", "f">>}

NumParsers == {"num_hex_64", "num_hex_32", "num_hex_16", "num_dec_64"}

\* The radix of a parser of numbers, the digits of the greatest value of its
\* type, and the error it returns
Radix(parser) == IF parser = "num_dec_64" THEN 10 ELSE 16

MaxDigits(parser) ==
    CASE parser = "num_hex_64" -> U64Max(16)
      [] parser = "num_hex_32" -> [i \in 1..8 |-> "f"]
      [] parser = "num_hex_16" -> [i \in 1..4 |-> "f"]
      [] parser = "num_dec_64" -> U64Max(10)

NumError(parser) == IF parser = "num_dec_64" THEN Parse("NumDec") ELSE Parse("NumHex")

\* What a parser of numbers returns of a token
ParseNum(parser, token) ==
    CASE parser = "num_hex_64" -> num_hex_64(token)
      [] parser = "num_hex_32" -> num_hex_32(token)
      [] parser = "num_hex_16" -> num_hex_16(token)
      [] parser = "num_dec_64" -> num_dec_64(token)

LineInit == NoEvaluator /\ NoFile

\* A decoder is given a line whose fields are a space apart, but for two that
\* some whitespace separates.
Separated ==
    \E decoder \in Decoders, wide \in Separators :
        \E at \in 2..Len(LineFields(decoder)) :
            /\ Called
            /\ call' = [op |-> decoder, at |-> at, wide |-> wide,
                        input |-> separated(LineFields(decoder), at, wide)]
            /\ ret' = Decode(decoder, separated(LineFields(decoder), at, wide))

\* A decoder is given a line that ends with a byte that is no UTF-8.
Undecodable ==
    \E decoder \in Decoders :
        /\ Called
        /\ call' = [op |-> decoder, at |-> 0, wide |-> <<" ">>,
                    input |-> Append(separated(LineFields(decoder), 0, <<" ">>),
                                     InvalidByte)]
        /\ ret' = Decode(decoder, Append(separated(LineFields(decoder), 0, <<" ">>),
                                          InvalidByte))

\* A parser of numbers is given a token.
NumParse ==
    \E parser \in NumParsers, token \in NumTokens \cup WideTokens :
        /\ Called
        /\ token \in WideTokens => parser \in {"num_hex_32", "num_hex_16"}
        /\ call' = [op |-> parser, input |-> token]
        /\ ret' = ParseNum(parser, token)

LineNext == Separated \/ Undecodable \/ NumParse

SpecLine == LineInit /\ [][LineNext]_vars

\* C21: a line in which several whitespace characters separate two adjacent
\* tokens decodes to the record of the line with a single space between them.
C21_Whitespace ==
    call.op \in Decoders /\ from_utf8_ok(call.input)
        => ret = Decode(call.op, separated(LineFields(call.op), 0, <<" ">>))

\* The token is a string of digits of the parser, not empty, whose value fits.
Unsigned(parser, token) ==
    /\ token # <<>>
    /\ \A i \in DOMAIN token : is_digit(token[i], Radix(parser))
    /\ \/ Len(trim_zeros(token)) < Len(MaxDigits(parser))
       \/ /\ Len(trim_zeros(token)) = Len(MaxDigits(parser))
          /\ ~digits_greater(trim_zeros(token), MaxDigits(parser))

\* C22: the parsers of numbers succeed exactly on the non-empty strings of
\* digits that fit the width; a token with a sign or a prefix is rejected with
\* Parse(NumHex), respectively Parse(NumDec).
C22_Unsigned ==
    call.op \in NumParsers
        => IF Unsigned(call.op, call.input) THEN IsOk(ret)
           ELSE ret = Err(NumError(call.op))

\* C23: every decoder, BreakpadStackRecord::parse included, fails with
\* BadEncoding on a line that holds bytes that are no UTF-8.
C23_BadEncoding ==
    call.op \in Decoders /\ ~from_utf8_ok(call.input) => ret = Err(BadEncoding)

(***************************************************************************)
(* The iterators of the INFO, PUBLIC and STACK records *)
(***************************************************************************)

RECURSIVE BreakpadInfoRecords_next(_)

\* The body of the loop of BreakpadInfoRecords::next
info_records_line(self, n) ==
    IF n.item = None THEN Yield(None, finished(self, n))
    ELSE IF starts_with(n.item.val, <<"M", "O", "D", "U", "L", "E", " ">>)
         THEN BreakpadInfoRecords_next(advanced(self, n))
    ELSE IF ~starts_with(n.item.val, <<"I", "N", "F", "O", " ">>)
         THEN Yield(None, finished(self, n))
    ELSE Yield(Some(BreakpadInfoRecord_parse(n.item.val)), advanced(self, n))

\* BreakpadInfoRecords::next
BreakpadInfoRecords_next(self) ==
    IF self.finished THEN Yield(None, self)
    ELSE info_records_line(self, Lines_next(self.lines))

\* BreakpadObject::info_records
BreakpadObject_info_records(buffer) == [lines |-> Lines_new(buffer), finished |-> FALSE]

RECURSIVE BreakpadPublicRecords_next(_)

\* The body of the loop of BreakpadPublicRecords::next, had it gone on past
\* the stack records.
public_records_line_unstopped(self, n) ==
    IF n.item = None THEN Yield(None, finished(self, n))
    ELSE IF ~starts_with(n.item.val, <<"P", "U", "B", "L", "I", "C", " ">>)
         THEN BreakpadPublicRecords_next(advanced(self, n))
    ELSE Yield(Some(BreakpadPublicRecord_parse(n.item.val)), advanced(self, n))

\* The body of the loop of BreakpadPublicRecords::next
public_records_line(self, n) ==
    IF n.item = None THEN Yield(None, finished(self, n))
    ELSE IF starts_with(n.item.val, <<"S", "T", "A", "C", "K", " ">>)
         THEN Yield(None, finished(self, n))
    ELSE IF ~starts_with(n.item.val, <<"P", "U", "B", "L", "I", "C", " ">>)
         THEN BreakpadPublicRecords_next(advanced(self, n))
    ELSE Yield(Some(BreakpadPublicRecord_parse(n.item.val)), advanced(self, n))

\* BreakpadPublicRecords::next
BreakpadPublicRecords_next(self) ==
    IF self.finished THEN Yield(None, self)
    ELSE public_records_line(self, Lines_next(self.lines))

\* BreakpadObject::public_records
BreakpadObject_public_records(buffer) == [lines |-> Lines_new(buffer), finished |-> FALSE]

\* BreakpadStackCfiRecord::deltas: an iterator over a clone of the cursor
BreakpadStackCfiRecord_deltas(self) == [lines |-> self.deltas]

\* The body of BreakpadStackCfiDeltaRecords::next, had an undecodable line
\* ended the iterator.
cfi_delta_records_line_fused(self, n) ==
    IF n.item = None THEN Yield(None, advanced(self, n))
    ELSE IF \/ starts_with(n.item.val, <<"S", "T", "A", "C", "K", " ", "C", "F", "I", " ", "I", "N", "I", "T">>)
            \/ ~starts_with(n.item.val, <<"S", "T", "A", "C", "K", " ", "C", "F", "I">>)
         THEN Yield(None, [self EXCEPT !.lines = Lines_default])
    ELSE IF ~IsOk(BreakpadStackCfiDeltaRecord_parse(n.item.val))
         THEN Yield(Some(BreakpadStackCfiDeltaRecord_parse(n.item.val)),
                    [self EXCEPT !.lines = Lines_default])
    ELSE Yield(Some(BreakpadStackCfiDeltaRecord_parse(n.item.val)), advanced(self, n))

\* The body of BreakpadStackCfiDeltaRecords::next, had it kept its cursor at
\* the line that ends the run.
cfi_delta_records_line_resumed(self, n) ==
    IF n.item = None THEN Yield(None, advanced(self, n))
    ELSE IF \/ starts_with(n.item.val, <<"S", "T", "A", "C", "K", " ", "C", "F", "I", " ", "I", "N", "I", "T">>)
            \/ ~starts_with(n.item.val, <<"S", "T", "A", "C", "K", " ", "C", "F", "I">>)
         THEN Yield(None, advanced(self, n))
    ELSE Yield(Some(BreakpadStackCfiDeltaRecord_parse(n.item.val)), advanced(self, n))

\* The body of BreakpadStackCfiDeltaRecords::next
cfi_delta_records_line(self, n) ==
    IF n.item = None THEN Yield(None, advanced(self, n))
    ELSE IF \/ starts_with(n.item.val, <<"S", "T", "A", "C", "K", " ", "C", "F", "I", " ", "I", "N", "I", "T">>)
            \/ ~starts_with(n.item.val, <<"S", "T", "A", "C", "K", " ", "C", "F", "I">>)
         THEN Yield(None, [self EXCEPT !.lines = Lines_default])
    ELSE Yield(Some(BreakpadStackCfiDeltaRecord_parse(n.item.val)), advanced(self, n))

\* BreakpadStackCfiDeltaRecords::next
BreakpadStackCfiDeltaRecords_next(self) ==
    cfi_delta_records_line(self, Lines_next(self.lines))

\* `.map(|mut r| { r.deltas = self.lines.clone(); BreakpadStackRecord::Cfi(r) })`
with_deltas(parsed, lines) ==
    IF IsOk(parsed) THEN Ok(StackCfi([parsed.v EXCEPT !.deltas = lines])) ELSE parsed

RECURSIVE BreakpadStackRecords_next(_)

\* The body of the loop of BreakpadStackRecords::next
stack_records_line(self, n) ==
    IF n.item = None THEN Yield(None, finished(self, n))
    ELSE IF starts_with(n.item.val, <<"S", "T", "A", "C", "K", " ", "W", "I", "N">>)
         THEN Yield(Some(BreakpadStackRecord_parse(n.item.val)), advanced(self, n))
    ELSE IF starts_with(n.item.val, <<"S", "T", "A", "C", "K", " ", "C", "F", "I", " ", "I", "N", "I", "T">>)
         THEN Yield(Some(with_deltas(BreakpadStackCfiRecord_parse(n.item.val), n.lines)),
                    advanced(self, n))
    ELSE BreakpadStackRecords_next(advanced(self, n))

\* BreakpadStackRecords::next
BreakpadStackRecords_next(self) ==
    IF self.finished THEN Yield(None, self)
    ELSE stack_records_line(self, Lines_next(self.lines))

\* BreakpadObject::stack_records
BreakpadObject_stack_records(buffer) == [lines |-> Lines_new(buffer), finished |-> FALSE]

(***************************************************************************)
(* The record iterators at work *)
(***************************************************************************)

\* "INFO CODE_ID abc"
InfoLine == <<"I", "N", "F", "O", " ", "C", "O", "D", "E", "_", "I", "D", " ", "a", "b", "c">>

\* "INFO CODE_ID xyz": an INFO line that does not decode
BadInfoLine == <<"I", "N", "F", "O", " ", "C", "O", "D", "E", "_", "I", "D", " ", "x", "y", "z">>

\* "MODULE x"
ModuleLine == <<"M", "O", "D", "U", "L", "E", " ", "x">>

\* "FILE zz": a FILE line that does not decode
BadFileLine == <<"F", "I", "L", "E", " ", "z", "z">>

\* "PUBLIC zz": a PUBLIC line that does not decode
BadPublicLine == <<"P", "U", "B", "L", "I", "C", " ", "z", "z">>

\* "FUNC zz": a FUNC line that does not decode
BadFuncLine == <<"F", "U", "N", "C", " ", "z", "z">>

\* "STACK CFI INIT 10 6 .cfa: x"
CfiInitLine == <<"S", "T", "A", "C", "K", " ", "C", "F", "I", " ", "I", "N", "I", "T", " ", "1", "0", " ", "6", " ", ".", "c", "f", "a", ":", " ", "x">>

\* "STACK CFI INIT zz": a STACK CFI INIT line that does not decode
BadCfiInitLine == <<"S", "T", "A", "C", "K", " ", "C", "F", "I", " ", "I", "N", "I", "T", " ", "z", "z">>

\* "STACK CFI 12 .ra: y"
CfiDeltaLine == <<"S", "T", "A", "C", "K", " ", "C", "F", "I", " ", "1", "2", " ", ".", "r", "a", ":", " ", "y">>

\* "STACK CFI zz": a STACK CFI line that does not decode
BadCfiDeltaLine == <<"S", "T", "A", "C", "K", " ", "C", "F", "I", " ", "z", "z">>

\* "STACK WIN 4 371a 13 0 0 4 0 8 0 1 1"
StackWinLine == <<"S", "T", "A", "C", "K", " ", "W", "I", "N", " ", "4", " ", "3", "7", "1", "a", " ", "1", "3", " ", "0", " ", "0", " ", "4", " ", "0", " ", "8", " ", "0", " ", "1", " ", "1">>

\* "STACK WIN 9": a STACK WIN line that does not decode
BadStackWinLine == <<"S", "T", "A", "C", "K", " ", "W", "I", "N", " ", "9">>

\* The iterators that BreakpadObject hands out, and those of the children of
\* FUNC and STACK CFI INIT records
ObjectIterators == {"Info", "File", "Public", "Func", "Stack"}

ChildIterators == {"Line", "Delta"}

\* The lines an iterator is given: some that it yields, decoded or not, some
\* that it passes over and some that end it.
IteratorPool(kind) ==
    CASE kind = "Info" -> {InfoLine, BadInfoLine, ModuleLine, FileLine, BadLine}
      [] kind = "File" -> {FileLine, BadFileLine, InfoLine, ModuleLine, FuncLine}
      [] kind = "Public" -> {PublicLine, BadPublicLine, FuncLine, StackLine, BadLine}
      [] kind = "Func" -> {FuncLine, BadFuncLine, LineLine, StackLine, PublicLine}
      [] kind = "Line" -> {LineLine, EmptyRangeLine, BadLine, <<>>, FuncLine}
      [] kind = "Stack" -> {CfiInitLine, BadCfiInitLine, CfiDeltaLine, StackWinLine,
                            BadStackWinLine, FuncLine}
      [] kind = "Delta" -> {CfiDeltaLine, BadCfiDeltaLine, CfiInitLine, BadStackWinLine,
                            FuncLine}

\* An iterator over the lines of a buffer
new_iterator(kind, buffer) ==
    CASE kind = "Info" -> BreakpadObject_info_records(buffer)
      [] kind = "File" -> BreakpadObject_file_records(buffer)
      [] kind = "Public" -> BreakpadObject_public_records(buffer)
      [] kind = "Func" -> BreakpadObject_func_records(buffer)
      [] kind = "Stack" -> BreakpadObject_stack_records(buffer)
      [] kind = "Line" -> BreakpadFuncRecord_lines([lines |-> Lines_new(buffer)])
      [] kind = "Delta" -> BreakpadStackCfiRecord_deltas([deltas |-> Lines_new(buffer)])

Iterator(kind, self) == [kind |-> kind, self |-> self]

\* A BreakpadObject over a buffer and one of its iterators, or the iterator
\* of the children of a record whose line came before the buffer.
IteratorInit ==
    /\ \E kind \in ObjectIterators \cup ChildIterators :
        /\ data \in Buffers(IteratorPool(kind))
        /\ IF kind \in ObjectIterators
           THEN /\ iterator = Some(Iterator(kind, new_iterator(kind, data)))
                /\ child = None
           ELSE /\ iterator = None
                /\ child = Some(Iterator(kind, new_iterator(kind, data)))
    /\ yields = <<>>
    /\ owner = None
    /\ file_map = None
    /\ func_records = None
    /\ record = None
    /\ line_records = None
    /\ items = <<>>
    /\ ended = FALSE
    /\ first = None
    /\ NoEvaluator

\* The last two calls of next() on iterator returned None.
Exhausted ==
    /\ Len(yields) >= 2
    /\ yields[Len(yields)] = None
    /\ yields[Len(yields) - 1] = None

\* next() is called on iterator, which is of the kind.
Calling(kind) == iterator # None /\ iterator.val.kind = kind /\ ~Exhausted

\* next() on iterator returns n.item and leaves the iterator n.self.
Returns(n) ==
    /\ iterator' = Some(Iterator(iterator.val.kind, n.self))
    /\ yields' = Append(yields, n.item)
    /\ UNCHANGED <<data, file_map, func_records, record, line_records, items, ended,
                   first, child, owner, evars>>

\* next() is called on child, which is of the kind.
CallingChild(kind) == child # None /\ child.val.kind = kind

\* next() on child returns n.item, had child and the iterator that yielded
\* its record shared one cursor.
ChildReturns_Shared(n) ==
    /\ child' = Some(Iterator(child.val.kind, n.self))
    /\ items' = IF n.item = None THEN items ELSE Append(items, n.item.val)
    /\ ended' = (n.item = None)
    /\ iterator' = IF iterator = None THEN iterator
                   ELSE Some(Iterator(iterator.val.kind,
                                      [iterator.val.self EXCEPT !.lines = n.self.lines]))
    /\ UNCHANGED <<data, file_map, func_records, record, line_records, first,
                   yields, owner, evars>>

\* next() on child returns n.item and leaves the iterator n.self.
ChildReturns(n) ==
    /\ child' = Some(Iterator(child.val.kind, n.self))
    /\ items' = IF n.item = None THEN items ELSE Append(items, n.item.val)
    /\ ended' = (n.item = None)
    /\ UNCHANGED <<data, file_map, func_records, record, line_records, first, iterator,
                   yields, owner, evars>>

\* BreakpadInfoRecords::next
InfoRecords_next ==
    Calling("Info") /\ Returns(BreakpadInfoRecords_next(iterator.val.self))

\* BreakpadFileRecords::next
FileRecords_next ==
    Calling("File") /\ Returns(BreakpadFileRecords_next(iterator.val.self))

\* BreakpadPublicRecords::next
PublicRecords_next ==
    Calling("Public") /\ Returns(BreakpadPublicRecords_next(iterator.val.self))

\* BreakpadFuncRecords::next
FuncRecords_next ==
    Calling("Func") /\ Returns(BreakpadFuncRecords_next(iterator.val.self))

\* BreakpadStackRecords::next
StackRecords_next ==
    Calling("Stack") /\ Returns(BreakpadStackRecords_next(iterator.val.self))

\* BreakpadLineRecords::next
LineRecords_next ==
    CallingChild("Line") /\ ChildReturns(BreakpadLineRecords_next(child.val.self))

\* BreakpadStackCfiDeltaRecords::next
StackCfiDeltaRecords_next ==
    CallingChild("Delta") /\ ChildReturns(BreakpadStackCfiDeltaRecords_next(child.val.self))

IteratorNext ==
    \/ InfoRecords_next
    \/ FileRecords_next
    \/ PublicRecords_next
    \/ FuncRecords_next
    \/ StackRecords_next
    \/ LineRecords_next
    \/ StackCfiDeltaRecords_next

\* The record iterators of a symbol file, each by itself.
SpecIter == IteratorInit /\ [][IteratorNext]_vars

-----------------------------------------------------------------------------
(* Claims about the record iterators *)

\* The positions of the PUBLIC lines before the first STACK line.
PublicPositions ==
    SelectSeq(Positions, LAMBDA j : j < FirstStack /\ starts_with(data[j], <<"P", "U", "B", "L", "I", "C", " ">>))

\* What the calls of next() return, one after the other, on an iterator that
\* yields the given items and then ends.
YieldsThenEnds(expected) ==
    \A i \in DOMAIN yields :
        yields[i] = IF i <= Len(expected) THEN Some(expected[i]) ELSE None

\* The FUNC record of the line at position j, as BreakpadFuncRecords yields it
FuncItem(j) ==
    with_lines(BreakpadFuncRecord_parse(data[j]), SubSeq(data, j + 1, Len(data)))

\* C27: BreakpadPublicRecords and BreakpadFuncRecords yield, in source order,
\* one item for each line that starts with 'PUBLIC ' (resp. 'FUNC ') and comes
\* before the first line starting with 'STACK ', and nothing else: once that
\* line or the end of the buffer is reached, next() returns None on that call
\* and on every later one.
C27_StopAtStack ==
    /\ (iterator # None /\ iterator.val.kind = "Public") =>
        YieldsThenEnds([k \in DOMAIN PublicPositions |->
                            BreakpadPublicRecord_parse(data[PublicPositions[k]])])
    /\ (iterator # None /\ iterator.val.kind = "Func") =>
        YieldsThenEnds([k \in DOMAIN FuncPositions |-> FuncItem(FuncPositions[k])])

\* A PUBLIC line comes before a STACK line and another one after it:
\* public_records() has yielded the first one and then None, twice.
C27_Witness ==
    /\ iterator # None /\ iterator.val.kind = "Public"
    /\ PublicPositions # <<>>
    /\ \E j \in DOMAIN data : j > FirstStack /\ starts_with(data[j], <<"P", "U", "B", "L", "I", "C", " ">>)
    /\ Exhausted

\* The iterator takes the line for one of its records.
Accepts(kind, line) ==
    CASE kind = "Info" -> starts_with(line, <<"I", "N", "F", "O", " ">>)
      [] kind = "File" -> starts_with(line, <<"F", "I", "L", "E", " ">>)
      [] kind = "Public" -> starts_with(line, <<"P", "U", "B", "L", "I", "C", " ">>)
      [] kind = "Func" -> starts_with(line, <<"F", "U", "N", "C", " ">>)
      [] kind = "Line" -> line # <<>> /\ ~ends_line_records(line)
      [] kind = "Stack" -> \/ starts_with(line, <<"S", "T", "A", "C", "K", " ", "W", "I", "N">>)
                           \/ starts_with(line, <<"S", "T", "A", "C", "K", " ", "C", "F", "I", " ", "I", "N", "I", "T">>)
      [] kind = "Delta" -> /\ starts_with(line, <<"S", "T", "A", "C", "K", " ", "C", "F", "I">>)
                           /\ ~starts_with(line, <<"S", "T", "A", "C", "K", " ", "C", "F", "I", " ", "I", "N", "I", "T">>)

\* The iterator ends at the line.
Ends(kind, line) ==
    CASE kind = "Info" -> ~Accepts(kind, line) /\ ~starts_with(line, <<"M", "O", "D", "U", "L", "E", " ">>)
      [] kind = "File" -> /\ ~Accepts(kind, line)
                          /\ ~starts_with(line, <<"M", "O", "D", "U", "L", "E", " ">>)
                          /\ ~starts_with(line, <<"I", "N", "F", "O", " ">>)
      [] kind \in {"Public", "Func"} -> starts_with(line, <<"S", "T", "A", "C", "K", " ">>)
      [] kind = "Line" -> ends_line_records(line)
      [] kind = "Stack" -> FALSE
      [] kind = "Delta" -> ~Accepts(kind, line)

\* The item that the iterator yields for the accepted line at position j
Item(kind, j) ==
    CASE kind = "Info" -> BreakpadInfoRecord_parse(data[j])
      [] kind = "File" -> BreakpadFileRecord_parse(data[j])
      [] kind = "Public" -> BreakpadPublicRecord_parse(data[j])
      [] kind = "Func" -> FuncItem(j)
      [] kind = "Line" -> BreakpadLineRecord_parse(data[j])
      [] kind = "Stack" ->
            IF starts_with(data[j], <<"S", "T", "A", "C", "K", " ", "W", "I", "N">>)
            THEN BreakpadStackRecord_parse(data[j])
            ELSE with_deltas(BreakpadStackCfiRecord_parse(data[j]),
                             SubSeq(data, j + 1, Len(data)))
      [] kind = "Delta" -> BreakpadStackCfiDeltaRecord_parse(data[j])

\* The accepted lines that come before the first line at which the iterator
\* ends, in source order
AcceptedPositions(kind) ==
    SelectSeq(Positions,
              LAMBDA j : /\ Accepts(kind, data[j])
                         /\ \A h \in 1..(j - 1) : ~Ends(kind, data[h]))

\* The line at position j decodes to a line record of an empty range.
EmptyRange(j) ==
    /\ IsOk(BreakpadLineRecord_parse(data[j]))
    /\ BreakpadLineRecord_parse(data[j]).v.size = 0

\* The accepted lines for which the iterator yields an item
YieldedPositions(kind) ==
    SelectSeq(AcceptedPositions(kind), LAMBDA j : ~(kind = "Line" /\ EmptyRange(j)))

\* The iterator of the kind, run by itself over the whole buffer, yields one
\* item for each of the positions, in order, and ends after them for good.
YieldsEach(kind, positions) ==
    /\ (iterator # None /\ child = None /\ iterator.val.kind = kind) =>
        YieldsThenEnds([k \in DOMAIN positions |-> Item(kind, positions[k])])
    /\ (iterator = None /\ child # None /\ child.val.kind = kind) =>
        /\ Len(items) <= Len(positions)
        /\ \A k \in DOMAIN items : items[k] = Item(kind, positions[k])
        /\ ended => Len(items) = Len(positions)

\* C24, as stated: each record iterator yields one item for each line it
\* accepts, in source order, a line that fails to decode as an error that does
\* not end the stream.
C24_AsStated ==
    \A kind \in ObjectIterators \cup ChildIterators :
        YieldsEach(kind, AcceptedPositions(kind))

\* C24: each record iterator yields one item for each line it accepts, in
\* source order, a line that fails to decode as an error that does not end
\* the stream; except that BreakpadLineRecords yields nothing for a line that
\* decodes to a record of size 0.
C24_ErrorsYielded ==
    \A kind \in ObjectIterators \cup ChildIterators :
        YieldsEach(kind, YieldedPositions(kind))

\* The line records "zz", "14 0 8 2" and "10 4 7 2", in this order: the
\* iterator has yielded an error and the record of 4 bytes, and has ended.
C24_Witness ==
    /\ iterator = None /\ child # None /\ child.val.kind = "Line"
    /\ ended
    /\ Len(items) = 2 /\ IsErr(items[1]) /\ IsOk(items[2])
    /\ \E i, j, k \in DOMAIN data :
        /\ i < j /\ j < k
        /\ ~IsOk(BreakpadLineRecord_parse(data[i]))
        /\ EmptyRange(j)
        /\ items[2] = BreakpadLineRecord_parse(data[k])

(***************************************************************************)
(* The records and their children, iterated together *)
(***************************************************************************)

\* The iterators whose records have children
ParentIterators == {"Func", "Stack"}

\* FUNC records with their line records, STACK CFI INIT records with their
\* deltas, and the lines that end either
NestedPool(kind) ==
    CASE kind = "Func" -> {FuncLine, LineLine, EmptyRangeLine, BadLine, StackLine}
      [] kind = "Stack" -> {CfiInitLine, CfiDeltaLine, BadCfiDeltaLine, FuncLine}

\* A BreakpadObject over a buffer, and its func_records() or stack_records().
NestedInit ==
    /\ \E kind \in ParentIterators :
        /\ data \in Buffers(NestedPool(kind))
        /\ iterator = Some(Iterator(kind, new_iterator(kind, data)))
    /\ child = None
    /\ yields = <<>>
    /\ owner = None
    /\ file_map = None
    /\ func_records = None
    /\ record = None
    /\ line_records = None
    /\ items = <<>>
    /\ ended = FALSE
    /\ first = None
    /\ NoEvaluator

\* The user takes the iterator of the children of the record: a new one
\* replaces the one they held.
Children(record_, iterator_) ==
    /\ owner' = Some(record_)
    /\ child' = Some(iterator_)
    /\ items' = <<>>
    /\ ended' = FALSE
    /\ UNCHANGED <<data, file_map, func_records, record, line_records, first, iterator,
                   yields, evars>>

\* F.lines(), for a FUNC record F that func_records() has yielded
FuncRecord_lines ==
    /\ iterator # None /\ iterator.val.kind = "Func"
    /\ \E i \in DOMAIN yields :
        /\ yields[i] # None /\ IsOk(yields[i].val)
        /\ Children(yields[i].val.v,
                    Iterator("Line", BreakpadFuncRecord_lines(yields[i].val.v)))

\* R.deltas(), for a STACK CFI INIT record R that stack_records() has yielded
StackCfiRecord_deltas ==
    /\ iterator # None /\ iterator.val.kind = "Stack"
    /\ \E i \in DOMAIN yields :
        /\ yields[i] # None /\ IsOk(yields[i].val) /\ yields[i].val.v.variant = "Cfi"
        /\ Children(yields[i].val.v.r,
                    Iterator("Delta", BreakpadStackCfiRecord_deltas(yields[i].val.v.r)))

NestedNext ==
    \/ FuncRecords_next
    \/ StackRecords_next
    \/ FuncRecord_lines
    \/ StackCfiRecord_deltas
    \/ LineRecords_next
    \/ StackCfiDeltaRecords_next

\* The FUNC and STACK records of a symbol file, iterated together with their
\* children.
SpecNested == NestedInit /\ [][NestedNext]_vars

-----------------------------------------------------------------------------
(* Claims about the records and their children *)

\* next() of an iterator of the kind
iterator_next(kind, self) ==
    CASE kind = "Info" -> BreakpadInfoRecords_next(self)
      [] kind = "File" -> BreakpadFileRecords_next(self)
      [] kind = "Public" -> BreakpadPublicRecords_next(self)
      [] kind = "Func" -> BreakpadFuncRecords_next(self)
      [] kind = "Stack" -> BreakpadStackRecords_next(self)
      [] kind = "Line" -> BreakpadLineRecords_next(self)
      [] kind = "Delta" -> BreakpadStackCfiDeltaRecords_next(self)

RECURSIVE collected(_, _)

\* The items that an iterator yields after next() has returned n
collect_next(kind, n) ==
    IF n.item = None THEN <<>> ELSE <<n.item.val>> \o collected(kind, n.self)

\* .collect::<Vec<_>>(): the items an iterator yields when it is run alone,
\* until its first None
collected(kind, self) == collect_next(kind, iterator_next(kind, self))

\* The items among what the calls of next() on iterator returned
Yielded == [k \in DOMAIN SelectSeq(yields, LAMBDA y : y # None) |->
                SelectSeq(yields, LAMBDA y : y # None)[k].val]

\* The iterator of the children of a record, as the record hands it out
children(kind, record_) ==
    IF kind = "Line"
    THEN BreakpadFuncRecord_lines(record_)
    ELSE BreakpadStackCfiRecord_deltas(record_)

\* The length of the longest run, at the head of the lines, of lines that
\* start with 'STACK CFI' but not with 'STACK CFI INIT'
RunLength(lines) ==
    CHOOSE n \in 0..Len(lines) :
        /\ \A h \in 1..n : Accepts("Delta", lines[h])
        /\ n < Len(lines) => ~Accepts("Delta", lines[n + 1])

\* One delta item for each line of that run
RunItems(lines) ==
    [h \in 1..RunLength(lines) |-> BreakpadStackCfiDeltaRecord_parse(lines[h])]

\* The STACK CFI INIT records among the items of stack_records(), each with
\* the position of its line
CfiRecords ==
    {<<Yielded[i].v.r, AcceptedPositions("Stack")[i]>> :
        i \in {h \in DOMAIN Yielded : IsOk(Yielded[h]) /\ Yielded[h].v.variant = "Cfi"}}

\* C28: for every STACK CFI INIT record R that stack_records() yields,
\* R.deltas() yields exactly one item for each line of the longest run of
\* lines, right after the line of R, that start with 'STACK CFI' but not with
\* 'STACK CFI INIT'; at the first line outside the run, or at the end of the
\* buffer, next() returns None, and so does every later call, whatever lines
\* follow.
C28_DeltaRun ==
    (iterator # None /\ iterator.val.kind = "Stack") =>
        /\ \A R \in CfiRecords :
            /\ R[1].deltas = SubSeq(data, R[2] + 1, Len(data))
            /\ collected("Delta", BreakpadStackCfiRecord_deltas(R[1]))
                   = RunItems(SubSeq(data, R[2] + 1, Len(data)))
        /\ child # None =>
            /\ Len(items) <= RunLength(owner.val.deltas)
            /\ items = SubSeq(RunItems(owner.val.deltas), 1, Len(items))
            /\ ended =>
                /\ items = RunItems(owner.val.deltas)
                /\ BreakpadStackCfiDeltaRecords_next(child.val.self).item = None

\* After the STACK CFI INIT line of R come a run of delta lines, a line that
\* ends the run, and later another delta line: R.deltas() has yielded the run
\* and has ended.
C28_Witness ==
    /\ iterator # None /\ iterator.val.kind = "Stack"
    /\ child # None /\ ended
    /\ items # <<>>
    /\ Len(items) = RunLength(owner.val.deltas)
    /\ \E g \in DOMAIN owner.val.deltas :
        g > RunLength(owner.val.deltas) + 1 /\ Accepts("Delta", owner.val.deltas[g])

\* C26: however the calls of next() on func_records() or stack_records() and
\* on the iterators F.lines() or R.deltas() of records they yielded are
\* interleaved, every iterator yields what it yields when it is run alone:
\* a call on the child does not move the parent, a call on the parent does not
\* change what a child already obtained yields.
C26_Interleaving ==
    (iterator # None /\ iterator.val.kind \in ParentIterators) =>
        /\ Yielded \o collected(iterator.val.kind, iterator.val.self)
               = collected(iterator.val.kind, new_iterator(iterator.val.kind, data))
        /\ child # None =>
            items \o collected(child.val.kind, child.val.self)
                = collected(child.val.kind, children(child.val.kind, owner.val))

\* The child has yielded an item, and the parent has since moved past the
\* line that the child is at.
C26_Witness ==
    /\ iterator # None /\ iterator.val.kind \in ParentIterators
    /\ child # None
    /\ items # <<>>
    /\ ~ended
    /\ Len(iterator.val.self.lines) < Len(child.val.self.lines)
    /\ Len(Yielded) >= 2

(***************************************************************************)
(* The source files of the debug session *)
(***************************************************************************)

RECURSIVE in_order(_)

\* The keys of a BTreeMap, in the order in which it is iterated
in_order(keys) ==
    IF keys = {} THEN <<>>
    ELSE <<CHOOSE k \in keys : \A j \in keys : k <= j>>
             \o in_order(keys \ {CHOOSE k \in keys : \A j \in keys : k <= j})

\* BTreeMap::values
values(map_) == [k \in DOMAIN in_order(DOMAIN map_) |-> map_[in_order(DOMAIN map_)[k]]]

\* BreakpadDebugSession::files
BreakpadDebugSession_files(map_) == [files |-> values(map_)]

\* The FileEntry of a path
FileEntry(path) == [compilation_dir |-> <<>>, info |-> FileInfo_from_path(path)]

\* BreakpadFileIterator::next
BreakpadFileIterator_next(self) ==
    IF self.files = <<>> THEN Yield(None, self)
    ELSE Yield(Some(Ok(FileEntry(Head(self.files)))), [self EXCEPT !.files = Tail(self.files)])

\* "FILE 2 b.c": another name for the file 2
FileAgainLine == <<"F", "I", "L", "E", " ", "2", " ", "b", ".", "c">>

\* "FILE 1 z"
FileOneLine == <<"F", "I", "L", "E", " ", "1", " ", "z">>

\* FILE lines, of which two have the same id and one does not decode, a line
\* that BreakpadFileRecords passes over and one that ends it
FilesPool == {FileLine, FileAgainLine, FileOneLine, BadFileLine, InfoLine, FuncLine}

\* A BreakpadObject over a buffer.
FilesInit ==
    /\ data \in Buffers(FilesPool)
    /\ NoRecords
    /\ file_map = None
    /\ func_records = None
    /\ record = None
    /\ line_records = None
    /\ items = <<>>
    /\ ended = FALSE
    /\ first = None
    /\ NoEvaluator

\* session.files()
Files ==
    /\ file_map # None
    /\ iterator' = Some(Iterator("Files", BreakpadDebugSession_files(file_map.val)))
    /\ yields' = <<>>
    /\ UNCHANGED <<data, file_map, func_records, record, line_records, items, ended,
                   first, child, owner, evars>>

\* next() on the iterator obtained from files()
FileIterator_next ==
    Calling("Files") /\ Returns(BreakpadFileIterator_next(iterator.val.self))

FilesNext == DebugSession \/ Files \/ FileIterator_next

\* The debug session of a symbol file and its source files.
SpecFiles == FilesInit /\ [][FilesNext]_vars

-----------------------------------------------------------------------------
(* Claims about the source files *)

\* The FILE records that file_records() yields decoded
FileRecords ==
    SelectSeq(collected("File", BreakpadObject_file_records(data)), IsOk)

\* The ids of the records
Ids(records_) == {records_[k].v.id : k \in DOMAIN records_}

\* The last of the records with the id
LastFile(records_, id) ==
    records_[CHOOSE k \in DOMAIN records_ :
                 /\ records_[k].v.id = id
                 /\ \A h \in DOMAIN records_ : records_[h].v.id = id => h <= k]

\* The ids, ascending
Ascending(ids) ==
    CHOOSE s \in [1..Cardinality(ids) -> ids] :
        \A a, b \in 1..Cardinality(ids) : a < b => s[a] < s[b]

\* The map has one entry for each id of the records, with the name of the last
\* record of the id; files() enumerates the entries in the order of the ids.
MapOf(records_, ids, ascending) ==
    /\ DOMAIN file_map.val = ids
    /\ \A id \in ids : file_map.val[id] = LastFile(records_, id).v.name
    /\ (iterator # None /\ iterator.val.kind = "Files") =>
        YieldsThenEnds([k \in DOMAIN ascending |->
                            Ok(FileEntry(LastFile(records_, ascending[k]).v.name))])

\* C25: file_map() has one entry for each id among the FILE records that
\* file_records() yields decoded, the lines that fail being dropped and the last
\* record of an id giving its name; files() of the debug session enumerates the
\* entries in ascending order of the ids.
C25_FileMap ==
    file_map # None => MapOf(FileRecords, Ids(FileRecords), Ascending(Ids(FileRecords)))

\* The buffer holds a FILE line that does not decode, two FILE lines of one id
\* with different names, and a FILE line of a smaller id after one of a larger
\* id: files() has yielded its two files and then None, twice.
C25_Witness ==
    /\ file_map # None
    /\ iterator # None /\ iterator.val.kind = "Files"
    /\ Exhausted
    /\ Len(yields) = 4
    /\ \E j \in DOMAIN data : starts_with(data[j], <<"F", "I", "L", "E", " ">>)
                              /\ ~IsOk(BreakpadFileRecord_parse(data[j]))
    /\ \E k, h \in DOMAIN FileRecords :
        /\ k < h
        /\ FileRecords[k].v.id = FileRecords[h].v.id
        /\ FileRecords[k].v.name # FileRecords[h].v.name
    /\ \E k, h \in DOMAIN FileRecords : k < h /\ FileRecords[k].v.id > FileRecords[h].v.id

====
